---- MODULE Spec2Model ----
(***************************************************************************)
(* Authentication and authorization core of golang-project-template:       *)
(* the JWT codec (pkg/jwt), the credential hasher (pkg/crypto), the auth    *)
(* use case (Register / Login), the Authorization gate (AuthMiddleware)    *)
(* and the protected profile handler behind it.                            *)
(*                                                                         *)
(* Strings that the program treats as opaque are modelled symbolically:    *)
(* a bcrypt hash is the record of its salt and the password it was         *)
(* computed from, an HMAC signature is the record of the algorithm, the    *)
(* key and the signing input it was computed over.                         *)
(***************************************************************************)
EXTENDS Integers, Sequences, FiniteSets, TLC

\* ------------------------------------------------------------------------
\* Bounds of the model
\* ------------------------------------------------------------------------
MaxUsers == 2
MaxSubTicks == 1
MaxDays == 1
MaxTokens == 1

Emails == {"a@x.com", "b@x.com"}
Usernames == {"alice", "bob"}
Passwords == {"secret123", "wrongpass"}
RegPasswords == {"secret123"}
Names == {"A"}
AcceptLanguages == {"", "id"}
Secrets == {"k1", "k2"}
EnvSecrets == {"", "k1"}
Reqs == {1}

\* ------------------------------------------------------------------------
\* Program constants
\* ------------------------------------------------------------------------
StatusOK == 200
StatusCreated == 201
StatusBadRequest == 400
StatusUnauthorized == 401
StatusNotFound == 404
StatusInternalServerError == 500

HourSeconds == 3600
\* GenerateToken: 24*time.Hour, in seconds (NumericDate precision)
TokenTTL == 24 * HourSeconds

VARIABLES
    env,        \* value of the JWT_SECRET environment variable ("" = unset)
    now,        \* the clock, in seconds
    users,      \* the users table: sequence of rows, in insertion order
    wallet,     \* tokens a client still holds from earlier Login responses
    reqs,       \* the in-flight HTTP requests, one per slot
    lastNotFound, \* response of the latest Login that failed at the lookup
    codec,      \* the codec exercised alone: one issue / validate round
    hasher,     \* the hasher exercised alone: one hash / verify round
    server,     \* the http.Server of main and main's position
    pager,      \* the pagination exercised alone: one build / total-page round
    catalog     \* the products table and the one UpdateProduct request on it

vars == <<env, now, users, wallet, reqs, lastNotFound, codec, hasher, server, pager, catalog>>

None == [none |-> TRUE]

\* main after ListenAndServe has started: the listener is open, no signal yet
Serving == [listen |-> "open", quit |-> 0, main |-> "waiting", inflight |-> FALSE]

\* ------------------------------------------------------------------------
\* internal/core/config: Load / getEnv
\* ------------------------------------------------------------------------
getEnv(value, fallback) == IF value # "" THEN value ELSE fallback

Load(e) == [JWT |-> [Secret |-> getEnv(e, "your-secret-key")]]

\* ------------------------------------------------------------------------
\* internal/shared/constants: error messages by code and language
\* ------------------------------------------------------------------------
LangEN == "en"
LangID == "id"

errMessages ==
    [Unauthorized          |-> [en |-> "unauthorized", id |-> "tidak memiliki akses"],
     InvalidCredentials    |-> [en |-> "invalid email or password", id |-> "email atau password salah"],
     UserAlreadyExists     |-> [en |-> "user already exists", id |-> "pengguna sudah terdaftar"],
     UsernameAlreadyTaken  |-> [en |-> "username already taken", id |-> "username sudah digunakan"],
     FailedToHashPassword  |-> [en |-> "failed to process password", id |-> "gagal memproses password"],
     FailedToCreateUser    |-> [en |-> "failed to create user", id |-> "gagal membuat pengguna"],
     FailedToGenerateToken |-> [en |-> "failed to generate token", id |-> "gagal membuat token"],
     UserNotFound          |-> [en |-> "user not found", id |-> "pengguna tidak ditemukan"],
     ValidationFailed      |-> [en |-> "validation failed", id |-> "validasi gagal"],
     FailedToUpdateUser    |-> [en |-> "failed to update user", id |-> "gagal memperbarui pengguna"],
     FailedToGetUsers      |-> [en |-> "failed to get users", id |-> "gagal mengambil data pengguna"]]

GetError(code, lang) ==
    IF code \in DOMAIN errMessages
    THEN IF lang \in DOMAIN errMessages[code]
         THEN errMessages[code][lang]
         ELSE errMessages[code][LangEN]
    ELSE "unknown error"

GetErrorMessage(code, lang) == GetError(code, lang)

\* LanguageMiddleware: the Accept-Language header decides the language
LanguageMiddleware(acceptLanguage) ==
    IF acceptLanguage \in {"id", "ID"} THEN LangID ELSE LangEN

\* ------------------------------------------------------------------------
\* pkg/jwt: the token codec
\* ------------------------------------------------------------------------
SigningMethodHS256 == "HS256"
SigningMethodHMAC == {"HS256", "HS384", "HS512"}

\* UserPayload with the email and the username crosswise
UserPayloadSwapped(id, email, username) == [ID |-> id, Email |-> username, Username |-> email]

UserPayload(id, email, username) == [ID |-> id, Email |-> email, Username |-> username]

\* jwt.NewNumericDate keeps whole seconds; the clock of the model is in seconds
NewNumericDate(t) == t

\* the HMAC of the signing input under the key
HmacSign(alg, key, header, claims) ==
    [alg |-> alg, key |-> key, header |-> header, claims |-> claims]

\* GenerateTokenWithExpiry with the email and username claims filled in crosswise
GenerateTokenWithExpirySwapped(secret, user, expiry, t1, t2, t3) ==
    LET claims == [UserID    |-> user.ID,
                   Email     |-> user.Username,
                   Username  |-> user.Email,
                   ExpiresAt |-> NewNumericDate(t1 + expiry),
                   IssuedAt  |-> NewNumericDate(t2),
                   NotBefore |-> NewNumericDate(t3)]
        header == [alg |-> "HS256"]
    IN  [wf     |-> TRUE,
         header |-> header,
         claims |-> claims,
         sig    |-> HmacSign("HS256", secret, header, claims)]

\* t1, t2, t3 are the three reads of time.Now() in evaluation order
GenerateTokenWithExpiry(secret, user, expiry, t1, t2, t3) ==
    LET claims == [UserID    |-> user.ID,
                   Email     |-> user.Email,
                   Username  |-> user.Username,
                   ExpiresAt |-> NewNumericDate(t1 + expiry),
                   IssuedAt  |-> NewNumericDate(t2),
                   NotBefore |-> NewNumericDate(t3)]
        header == [alg |-> SigningMethodHS256]
    IN  [wf     |-> TRUE,
         header |-> header,
         claims |-> claims,
         sig    |-> HmacSign(SigningMethodHS256, secret, header, claims)]

GenerateToken(secret, user, t1, t2, t3) ==
    GenerateTokenWithExpiry(secret, user, TokenTTL, t1, t2, t3)

NoClaims == [UserID |-> 0, Email |-> "", Username |-> "",
             ExpiresAt |-> 0, IssuedAt |-> 0, NotBefore |-> 0]

\* "invalid.token.here": a string that does not decode as a token
GarbageToken ==
    [wf |-> FALSE, header |-> [alg |-> ""], claims |-> NoClaims,
     sig |-> HmacSign("", "", [alg |-> ""], NoClaims)]

\* ValidateToken that checks the signature against the key the token names
ValidateTokenAnyKey(secret, tokenString, t) ==
    IF ~tokenString.wf
    THEN [err |-> "malformed", claims |-> None]
    ELSE IF tokenString.header.alg \notin SigningMethodHMAC
    THEN [err |-> "unexpected signing method", claims |-> None]
    ELSE IF tokenString.sig # HmacSign(tokenString.header.alg, tokenString.sig.key,
                                       tokenString.header, tokenString.claims)
    THEN [err |-> "signature is invalid", claims |-> None]
    ELSE IF ~(t < tokenString.claims.ExpiresAt)
    THEN [err |-> "token is expired", claims |-> None]
    ELSE IF t < tokenString.claims.NotBefore
    THEN [err |-> "token is not valid yet", claims |-> None]
    ELSE [err |-> "", claims |-> tokenString.claims]

\* ValidateToken that does not look at the expiry
ValidateTokenNoExpiry(secret, tokenString, t) ==
    IF ~tokenString.wf
    THEN [err |-> "malformed", claims |-> None]
    ELSE IF tokenString.header.alg \notin SigningMethodHMAC
    THEN [err |-> "unexpected signing method", claims |-> None]
    ELSE IF tokenString.sig # HmacSign(tokenString.header.alg, secret,
                                       tokenString.header, tokenString.claims)
    THEN [err |-> "signature is invalid", claims |-> None]
    ELSE IF t < tokenString.claims.NotBefore
    THEN [err |-> "token is not valid yet", claims |-> None]
    ELSE [err |-> "", claims |-> tokenString.claims]

\* result of ValidateToken: the claims, or the class of the error
ValidateToken(secret, tokenString, t) ==
    IF ~tokenString.wf
    THEN [err |-> "malformed", claims |-> None]
    ELSE IF tokenString.header.alg \notin SigningMethodHMAC
    THEN [err |-> "unexpected signing method", claims |-> None]
    ELSE IF tokenString.sig # HmacSign(tokenString.header.alg, secret,
                                       tokenString.header, tokenString.claims)
    THEN [err |-> "signature is invalid", claims |-> None]
    ELSE IF ~(t < tokenString.claims.ExpiresAt)
    THEN [err |-> "token is expired", claims |-> None]
    ELSE IF t < tokenString.claims.NotBefore
    THEN [err |-> "token is not valid yet", claims |-> None]
    ELSE [err |-> "", claims |-> tokenString.claims]

\* ------------------------------------------------------------------------
\* The clock
\* ------------------------------------------------------------------------
ClockSteps == {d \in {1, TokenTTL} :
                 \/ d = 1 /\ now % TokenTTL < MaxSubTicks
                 \/ d = TokenTTL /\ now \div TokenTTL < MaxDays}

\* reads of time.Now() inside one GenerateToken call: later reads are not earlier
ReadTimes == {now} \cup {now + d : d \in ClockSteps \cap {1}}

ClockReads == {r \in {now} \X ReadTimes \X ReadTimes : r[2] <= r[3]}

\* time passes
Tick ==
    /\ \E d \in ClockSteps : now' = now + d
    /\ UNCHANGED <<env, users, wallet, reqs, lastNotFound, codec, hasher, server, pager, catalog>>

\* ------------------------------------------------------------------------
\* The codec alone: issue a token, let time pass, validate it
\* ------------------------------------------------------------------------
Expiries == {0 - HourSeconds, HourSeconds, TokenTTL}

Payloads == {UserPayload(id, e, u) : id \in 1..MaxUsers, e \in Emails, u \in Usernames}

CodecIdle == [pc |-> "idle", secret |-> "", user |-> UserPayload(0, "", ""),
              expiry |-> 0, token |-> GarbageToken,
              vsecret |-> "", vtime |-> 0, result |-> [err |-> "", claims |-> None],
              minted |-> FALSE]

CodecIssue ==
    /\ codec.pc = "idle"
    /\ \E secret \in Secrets, user \in Payloads, expiry \in Expiries, r \in ClockReads :
          /\ codec' = [codec EXCEPT !.pc = "issued", !.secret = secret, !.user = user,
                                    !.expiry = expiry, !.minted = TRUE,
                                    !.token = GenerateTokenWithExpiry(secret, user, expiry,
                                                                      r[1], r[2], r[3])]
          /\ now' = r[3]
    /\ UNCHANGED <<env, users, wallet, reqs, lastNotFound, hasher, server, pager, catalog>>

\* the signing algorithms a token's header may declare besides HS256
ForeignAlgs == {"none", "RS256", "HS384", "HS512"}

\* a token like GenerateTokenWithExpiry's, made by jwt.NewWithClaims with another
\* signing method and signed with the same secret bytes
SignForeign(alg, secret, user, expiry, t) ==
    LET claims == [UserID    |-> user.ID,
                   Email     |-> user.Email,
                   Username  |-> user.Username,
                   ExpiresAt |-> NewNumericDate(t + expiry),
                   IssuedAt  |-> NewNumericDate(t),
                   NotBefore |-> NewNumericDate(t)]
        header == [alg |-> alg]
    IN  [wf     |-> TRUE,
         header |-> header,
         claims |-> claims,
         sig    |-> HmacSign(alg, secret, header, claims)]

\* ValidateToken is handed a token that declares another algorithm
CodecIssueForeign ==
    /\ codec.pc = "idle"
    /\ \E alg \in ForeignAlgs, secret \in Secrets, user \in Payloads, expiry \in Expiries :
          codec' = [codec EXCEPT !.pc = "issued", !.secret = secret, !.user = user,
                                 !.expiry = expiry, !.minted = FALSE,
                                 !.token = SignForeign(alg, secret, user, expiry, now)]
    /\ UNCHANGED <<env, now, users, wallet, reqs, lastNotFound, hasher, server, pager, catalog>>

CodecValidate ==
    /\ codec.pc = "issued"
    /\ \E secret \in Secrets :
          codec' = [codec EXCEPT !.pc = "validated", !.vsecret = secret, !.vtime = now,
                                 !.result = ValidateToken(secret, codec.token, now)]
    /\ UNCHANGED <<env, now, users, wallet, reqs, lastNotFound, hasher, server, pager, catalog>>

CodecReset ==
    /\ codec.pc = "validated"
    /\ codec' = CodecIdle
    /\ UNCHANGED <<env, now, users, wallet, reqs, lastNotFound, hasher, server, pager, catalog>>


\* ------------------------------------------------------------------------
\* pkg/crypto: the credential hasher (bcrypt)
\* ------------------------------------------------------------------------
Salts == {"s1"}

\* bcrypt.GenerateFromPassword refuses a password of more than 72 bytes
BcryptMaxLen == 72

\* the bytes of the passwords of the model (0 is the NUL byte)
PasswordBytes ==
    [secret123 |-> <<1, 2, 3>>,
     wrongpass |-> <<4, 5>>,
     empty     |-> <<>>,
     ab        |-> <<1, 2>>,
     abNULab   |-> <<1, 2, 0, 1, 2>>,
     p71       |-> [i \in 1..71 |-> 7],
     p72       |-> [i \in 1..72 |-> 7],
     p72x      |-> [i \in 1..73 |-> IF i = 73 THEN 8 ELSE 7],
     p73       |-> [i \in 1..73 |-> 7]]

PasswordNames ==
    [secret123 |-> "secret123", wrongpass |-> "wrongpass", empty |-> "",
     ab |-> "ab", abNULab |-> "ab\\0ab", p71 |-> "p71", p72 |-> "p72",
     p72x |-> "p72x", p73 |-> "p73"]

Bytes(s) ==
    LET k == CHOOSE k \in DOMAIN PasswordNames : PasswordNames[k] = s
    IN  PasswordBytes[k]

LongPasswords == {"p73"}

\* a password-typed string: plaintext, or the bcrypt hash of a plaintext
Plain(s) == [alg |-> "plain", salt |-> "", pw |-> s]

\* blowfish.ExpandKey as bcrypt calls it: the key is the password followed by
\* a NUL byte, read cyclically for 18 words of 4 bytes
KeyBytes == 18 * 4
KeyStreamAt(b, i) == LET key == Append(b, 0) IN key[((i - 1) % Len(key)) + 1]

IsPeriod(b, k) == \A i \in 1..KeyBytes : KeyStreamAt(b, i) = KeyStreamAt(b, ((i - 1) % k) + 1)

RECURSIVE MinPeriod(_, _)
MinPeriod(b, k) == IF k >= KeyBytes \/ IsPeriod(b, k) THEN k ELSE MinPeriod(b, k + 1)

\* what the hash depends on: the key stream, kept as its shortest period
KeyStream(b) == [i \in 1..MinPeriod(b, 1) |-> KeyStreamAt(b, i)]

\* HashPassword that returns its argument
HashPasswordPlain(password, salt) == [hash |-> password, err |-> ""]

HashPassword(password, salt) ==
    IF Len(Bytes(password.pw)) > BcryptMaxLen
    THEN [hash |-> Plain(""), err |-> "bcrypt: password length exceeds 72 bytes"]
    ELSE [hash |-> [alg |-> "bcrypt", salt |-> salt, pw |-> KeyStream(Bytes(password.pw))],
          err |-> ""]

\* bcrypt.CompareHashAndPassword: "" when the password hashes to the hash
CompareHashAndPassword(hashedPassword, password) ==
    IF hashedPassword.alg # "bcrypt"
    THEN "crypto/bcrypt: hashedSecret too short to be a bcrypted password"
    ELSE IF hashedPassword.pw # KeyStream(Bytes(password.pw))
    THEN "crypto/bcrypt: hashedPassword is not the hash of the given password"
    ELSE ""

\* "" when the password matches the hash, else the error
VerifyPassword(hashedPassword, password) == CompareHashAndPassword(hashedPassword, password)

\* err == nil of the same comparison
CheckPasswordHash(password, hash) == CompareHashAndPassword(hash, password) = ""

\* the hasher exercised alone: HashPassword(p1), then VerifyPassword and
\* CheckPasswordHash of p2 against the result
HasherSalts == {"s1", "s2"}
HasherPasswords == {PasswordNames[k] : k \in DOMAIN PasswordNames}

HasherIdle == [pc |-> "idle", p1 |-> "", p2 |-> "", hash |-> Plain(""), err |-> "",
               verified |-> FALSE, verr |-> "", checked |-> FALSE, ok |-> FALSE]

HasherHash ==
    /\ hasher.pc = "start"
    /\ \E salt \in HasherSalts :
         LET h == HashPassword(Plain(hasher.p1), salt) IN
         \* HashPasswordWithCost returns "" with the error
         hasher' = [hasher EXCEPT !.pc = "hashed", !.hash = h.hash, !.err = h.err]
    /\ UNCHANGED <<env, now, users, wallet, reqs, lastNotFound, codec, server, pager, catalog>>

HasherVerify ==
    /\ hasher.pc = "hashed"
    /\ ~hasher.verified
    /\ hasher' = [hasher EXCEPT !.verified = TRUE,
                                !.verr = VerifyPassword(hasher.hash, Plain(hasher.p2))]
    /\ UNCHANGED <<env, now, users, wallet, reqs, lastNotFound, codec, server, pager, catalog>>

HasherCheck ==
    /\ hasher.pc = "hashed"
    /\ ~hasher.checked
    /\ hasher' = [hasher EXCEPT !.checked = TRUE,
                                !.ok = CheckPasswordHash(Plain(hasher.p2), hasher.hash)]
    /\ UNCHANGED <<env, now, users, wallet, reqs, lastNotFound, codec, server, pager, catalog>>

\* ------------------------------------------------------------------------
\* The users table and its repository
\* ------------------------------------------------------------------------
NewUser(id, email, username, password, firstName, lastName) ==
    [ID |-> id, Email |-> email, Username |-> username, Password |-> password,
     FirstName |-> firstName, LastName |-> lastName, DeletedAt |-> ""]

First(rows, fail) ==
    IF fail THEN [user |-> None, err |-> "driver: bad connection"]
    ELSE IF rows = {} THEN [user |-> None, err |-> "record not found"]
    ELSE [user |-> users[CHOOSE i \in rows : \A j \in rows : i <= j], err |-> ""]

GetByEmail(email, fail) ==
    First({i \in 1..Len(users) : users[i].DeletedAt = "" /\ users[i].Email = email}, fail)

GetByUsername(username, fail) ==
    First({i \in 1..Len(users) : users[i].DeletedAt = "" /\ users[i].Username = username},
          fail)

GetByID(id, fail) ==
    First({i \in 1..Len(users) : users[i].DeletedAt = "" /\ users[i].ID = id}, fail)

\* Create on a table without the unique indexes
CreateNoIndex(user, fail) == IF fail THEN "driver: bad connection" ELSE ""

\* the error of Create: the table has unique indexes on email and username
Create(user, fail) ==
    IF fail THEN "driver: bad connection"
    ELSE IF \E i \in 1..Len(users) :
              users[i].Email = user.Email \/ users[i].Username = user.Username
    THEN "duplicate key value violates unique constraint"
    ELSE ""

\* gorm Updates(user): the non-zero fields of user are written to the rows with the id
Updates(row, user) ==
    [f \in DOMAIN row |->
        IF f = "ID" THEN row[f]
        ELSE IF f = "Password"
             THEN (IF user[f] = Plain("") THEN row[f] ELSE user[f])
             ELSE (IF user[f] = "" THEN row[f] ELSE user[f])]

\* Update without the WHERE clause
UpdateAllRows(filterID, user, fail) ==
    IF fail THEN [users |-> users, err |-> "driver: bad connection"]
    ELSE [users |-> [i \in 1..Len(users) |-> Updates(users[i], [user EXCEPT !.Email = "",
                                                                             !.Username = ""])],
          err |-> ""]

\* the table after userRepository.Update, and its error
Update(filterID, user, fail) ==
    IF fail THEN [users |-> users, err |-> "driver: bad connection"]
    ELSE [users |-> [i \in 1..Len(users) |->
                        IF users[i].DeletedAt = "" /\ users[i].ID = filterID
                        THEN Updates(users[i], user)
                        ELSE users[i]],
          err |-> ""]

\* the table after userRepository.Delete (gorm soft delete), and its error
Delete(id, fail) ==
    IF fail THEN [users |-> users, err |-> "driver: bad connection"]
    ELSE [users |-> [i \in 1..Len(users) |->
                        IF users[i].DeletedAt = "" /\ users[i].ID = id
                        THEN [users[i] EXCEPT !.DeletedAt = "deleted"]
                        ELSE users[i]],
          err |-> ""]

\* strconv.Atoi on the query strings the model sends
Numerals == {<<"-1", 0 - 1>>, <<"0", 0>>, <<"1", 1>>, <<"2", 2>>, <<"10", 10>>}

Atoi(str) ==
    IF \E p \in Numerals : p[1] = str
    THEN [n |-> (CHOOSE p \in Numerals : p[1] = str)[2], err |-> FALSE]
    ELSE [n |-> 0, err |-> TRUE]

DefaultPerPage == 10

PaginationBuilder(perPage, page) ==
    LET perPageInt == IF Atoi(perPage).err THEN DefaultPerPage ELSE Atoi(perPage).n
        pageInt0   == IF Atoi(page).err THEN 1 ELSE Atoi(page).n
        pageInt    == IF pageInt0 < 1 THEN 1 ELSE pageInt0
    IN  [Offset |-> (pageInt - 1) * perPageInt, PerPage |-> perPageInt, Page |-> pageInt]

\* Go's / and % on int: the quotient is truncated toward zero
Abs(n) == IF n < 0 THEN 0 - n ELSE n
GoDiv(a, b) == IF (a < 0) = (b < 0) THEN Abs(a) \div Abs(b) ELSE 0 - (Abs(a) \div Abs(b))
GoMod(a, b) == a - b * GoDiv(a, b)

\* totalRows / perPage panics: runtime error: integer divide by zero
DivideByZero(totalRows, perPage) == perPage = 0

\* TotalPage that rounds down
TotalPageFloor(totalRows, perPage) == GoDiv(totalRows, perPage)

\* the result of TotalPage when it does not panic
TotalPage(totalRows, perPage) ==
    GoDiv(totalRows, perPage) + (IF GoMod(totalRows, perPage) > 0 THEN 1 ELSE 0)

\* the pagination exercised alone: PaginationBuilder on the two query values,
\* then TotalPage on a row count as GetUsers calls it
PerPageValues == {"", "abc", "-1", "0", "1", "2", "10"}
PageValues == {"", "abc", "-1", "0", "1", "2"}
MaxRows == 3

PagerIdle == [pc |-> "idle", perPage |-> "", page |-> "", total |-> 0,
              pagination |-> [Offset |-> 0, PerPage |-> 0, Page |-> 0],
              totalPage |-> 0]

PagerBuild ==
    /\ pager.pc = "start"
    /\ pager' = [pager EXCEPT !.pc = "built",
                              !.pagination = PaginationBuilder(pager.perPage, pager.page)]
    /\ UNCHANGED <<env, now, users, wallet, reqs, lastNotFound, codec, hasher, server, catalog>>

PagerTotal ==
    /\ pager.pc = "built"
    /\ pager' = IF DivideByZero(pager.total, pager.pagination.PerPage)
                THEN [pager EXCEPT !.pc = "panicked"]
                ELSE [pager EXCEPT !.pc = "counted",
                         !.totalPage = TotalPage(pager.total, pager.pagination.PerPage)]
    /\ UNCHANGED <<env, now, users, wallet, reqs, lastNotFound, codec, hasher, server, catalog>>

\* ---- the product feature: PUT /api/v1/products/:id ----

\* the JSON keys of dto.UpdateProductRequest
ProductFields == {"name", "description", "price", "stock", "category", "is_active"}

\* a *bool that is nil
NilBool == "nil"

\* the product the table holds (entity.NewProduct: IsActive true); amounts in
\* whole units
StoredProducts ==
    {[ID |-> "p1", Name |-> "Lamp", Description |-> "desk lamp", Price |-> price,
      Stock |-> stock, Category |-> "home", IsActive |-> "true"] :
        price \in {0, 10}, stock \in {0, 5}}

\* the request bodies: the keys present and the value sent for each of them
ProductBodies ==
    {[present |-> present, name |-> name, description |-> description,
      price |-> price, stock |-> stock, category |-> category, is_active |-> active] :
        present \in SUBSET ProductFields,
        name \in {"Bulb"}, description \in {"led bulb"},
        price \in {0 - 1, 0, 12}, stock \in {0 - 1, 0, 7},
        category \in {"light"}, active \in {"true", "false"}}

\* ShouldBindJSON into dto.UpdateProductRequest: a key the body lacks leaves the
\* field at its zero value; binding:"min=0" on Price and Stock
BindUpdateProduct(body) ==
    [Name        |-> IF "name" \in body.present THEN body.name ELSE "",
     Description |-> IF "description" \in body.present THEN body.description ELSE "",
     Price       |-> IF "price" \in body.present THEN body.price ELSE 0,
     Stock       |-> IF "stock" \in body.present THEN body.stock ELSE 0,
     Category    |-> IF "category" \in body.present THEN body.category ELSE "",
     IsActive    |-> IF "is_active" \in body.present THEN body.is_active ELSE NilBool]

BindFails(req) == req.Price < 0 \/ req.Stock < 0

\* the field updates of the use case UpdateProduct
PatchProduct(product, req) ==
    [product EXCEPT
        !.Name = IF req.Name # "" THEN req.Name ELSE @,
        !.Description = IF req.Description # "" THEN req.Description ELSE @,
        !.Price = IF req.Price >= 0 THEN req.Price ELSE @,
        !.Stock = IF req.Stock >= 0 THEN req.Stock ELSE @,
        !.Category = IF req.Category # "" THEN req.Category ELSE @,
        !.IsActive = IF req.IsActive # NilBool THEN req.IsActive ELSE @]

\* productRepository.GetByID: First(&product, "id = ?", id)
ProductGetByID(id) ==
    IF \E i \in 1..Len(catalog.products) : catalog.products[i].ID = id
    THEN [err |-> "", product |-> catalog.products[
              CHOOSE i \in 1..Len(catalog.products) : catalog.products[i].ID = id]]
    ELSE [err |-> "product not found", product |-> None]

\* productRepository.Update: Save(product) writes every column of the row
ProductSave(product) ==
    [i \in 1..Len(catalog.products) |->
        IF catalog.products[i].ID = product.ID THEN product ELSE catalog.products[i]]

CatalogIdle == [pc |-> "idle", products |-> <<>>, id |-> "", body |-> None,
                req |-> None, product |-> None, code |-> 0]

\* handler UpdateProduct up to the call of the use case
UpdateProduct ==
    /\ catalog.pc = "start"
    /\ LET req == BindUpdateProduct(catalog.body) IN
         catalog' = IF BindFails(req)
                    THEN [catalog EXCEPT !.pc = "done", !.code = StatusBadRequest]
                    ELSE [catalog EXCEPT !.pc = "bound", !.req = req]
    /\ UNCHANGED <<env, now, users, wallet, reqs, lastNotFound, codec, hasher, server, pager>>

\* use case UpdateProduct: GetByID and the field updates
UsecaseUpdateProductGet ==
    /\ catalog.pc = "bound"
    /\ LET got == ProductGetByID(catalog.id) IN
         catalog' = IF got.err # ""
                    THEN [catalog EXCEPT !.pc = "done", !.code = StatusNotFound]
                    ELSE [catalog EXCEPT !.pc = "patched",
                             !.product = PatchProduct(got.product, catalog.req)]
    /\ UNCHANGED <<env, now, users, wallet, reqs, lastNotFound, codec, hasher, server, pager>>

\* use case UpdateProduct: productRepo.Update and the response
UsecaseUpdateProductSave(fail) ==
    /\ catalog.pc = "patched"
    /\ catalog' = IF fail
                  THEN [catalog EXCEPT !.pc = "done", !.code = StatusInternalServerError]
                  ELSE [catalog EXCEPT !.pc = "done", !.code = StatusOK,
                           !.products = ProductSave(catalog.product)]
    /\ UNCHANGED <<env, now, users, wallet, reqs, lastNotFound, codec, hasher, server, pager>>

\* the rows a filter selects, newest first (ORDER BY created_at DESC)
Selected(filter) ==
    LET keep(u) == /\ u.DeletedAt = ""
                   /\ (filter.Email # "" => u.Email = filter.Email)
                   /\ (filter.Username # "" => u.Username = filter.Username)
        F[i \in 0..Len(users)] ==
            IF i = 0 THEN <<>>
            ELSE IF keep(users[i]) THEN <<users[i]>> \o F[i - 1] ELSE F[i - 1]
    IN  F[Len(users)]

\* userRepository.List: the page (OFFSET, LIMIT) and the count of the selected rows
List(filter, fail) ==
    IF fail THEN [users |-> <<>>, total |-> 0, err |-> "driver: bad connection"]
    ELSE LET all == Selected(filter)
             lo  == filter.Offset + 1
             hi  == IF filter.Offset + filter.PerPage < Len(all)
                    THEN filter.Offset + filter.PerPage ELSE Len(all)
         IN  [users |-> SubSeq(all, lo, hi), total |-> Len(all), err |-> ""]

\* the user of a Register / Login response: the row without its password
ToRegisterResponse(user) == [user EXCEPT !.Password = Plain("")]

\* ToUserResponse that copies the whole row
ToUserResponseWholeRow(user) == user

\* the user of a profile response
ToUserResponse(user) ==
    [ID |-> user.ID, Email |-> user.Email, Username |-> user.Username,
     FirstName |-> user.FirstName, LastName |-> user.LastName]

\* ------------------------------------------------------------------------
\* HTTP requests
\* ------------------------------------------------------------------------
UserIDKey == "user_id"
UserEmailKey == "user_email"
UserUsernameKey == "user_username"
LangKey == "lang"

\* gin.Context keys
CtxSet(ctx, key, type, value) ==
    [k \in DOMAIN ctx \cup {key} |->
        IF k = key THEN [type |-> type, v |-> value] ELSE ctx[k]]

CtxEmpty == [k \in {} |-> None]

IdleReq ==
    [kind |-> "idle", pc |-> "idle", lang |-> LangEN,
     email |-> "", username |-> "", password |-> Plain(""),
     firstName |-> "", lastName |-> "",
     header |-> <<>>, ctx |-> CtxEmpty,
     found |-> None, vres |-> None, steps |-> <<>>, ucUserID |-> None, resp |-> None,
     failed |-> {}, handed |-> None, perPage |-> "", page |-> ""]

NewResponse(status, message, user, token) ==
    [status |-> status, message |-> message, user |-> user, token |-> token]

\* response.Unauthorized
Unauthorized(message) == NewResponse(StatusUnauthorized, message, None, None)

Busy(r) == reqs[r].kind # "idle"

Taken(email, username) ==
    \E i \in 1..Len(users) : users[i].Email = email \/ users[i].Username = username

\* the error returns of authUsecase.Register and authUsecase.Login
Failure(status, code, lang) == NewResponse(status, GetError(code, lang), None, None)

ErrEmailExists(lang) == Failure(StatusBadRequest, "UserAlreadyExists", lang)

\* ErrUsernameTaken reporting the error of an existing email
ErrUsernameTakenAsExists(lang) == Failure(StatusBadRequest, "UserAlreadyExists", lang)

ErrUsernameTaken(lang) == Failure(StatusBadRequest, "UsernameAlreadyTaken", lang)

ErrHashPassword(lang) == Failure(StatusInternalServerError, "FailedToHashPassword", lang)

ErrCreateUser(lang) == Failure(StatusInternalServerError, "FailedToCreateUser", lang)

\* ErrLoginLookup telling the caller that the email is unknown
ErrLoginLookupUserNotFound(lang) == Failure(StatusNotFound, "UserNotFound", lang)

ErrLoginLookup(lang) == Failure(StatusUnauthorized, "InvalidCredentials", lang)

ErrLoginVerify(lang) == Failure(StatusUnauthorized, "InvalidCredentials", lang)

\* ------------------------------------------------------------------------
\* POST /api/v1/auth/register : AuthHandler.Register -> authUsecase.Register
\* ------------------------------------------------------------------------
StartRegister(r) ==
    /\ ~Busy(r)
    /\ \E al \in AcceptLanguages, email \in Emails, username \in Usernames,
          password \in RegPasswords, firstName \in Names, lastName \in Names :
          /\ \/ Taken(email, username)
             \/ Len(users) + Cardinality({q \in DOMAIN reqs : reqs[q].kind = "register"})
                  < MaxUsers
          /\ reqs' = [reqs EXCEPT ![r] =
                 [IdleReq EXCEPT !.kind = "register", !.pc = "checkEmail",
                                 !.lang = LanguageMiddleware(al),
                                 !.ctx = CtxSet(CtxEmpty, LangKey, "Lang", LanguageMiddleware(al)),
                                 !.email = email, !.username = username,
                                 !.password = Plain(password),
                                 !.firstName = firstName, !.lastName = lastName]]
    /\ UNCHANGED <<env, now, users, wallet, lastNotFound, codec, hasher, server, pager, catalog>>

\* RegCheckEmail without the return for an existing user
RegCheckEmailNoReturn(r, fail) ==
    /\ reqs[r].kind = "register" /\ reqs[r].pc = "checkEmail"
    /\ reqs' = [reqs EXCEPT ![r] =
            [reqs[r] EXCEPT !.pc = "checkUsername",
                            !.steps = Append(reqs[r].steps, "checkEmail")]]
    /\ UNCHANGED <<env, now, users, wallet, lastNotFound, codec, hasher, server, pager, catalog>>

\* existingUser, _ := a.userRepo.GetByEmail(ctx, req.Email)
RegCheckEmail(r, fail) ==
    /\ reqs[r].kind = "register" /\ reqs[r].pc = "checkEmail"
    /\ LET q == reqs[r]
           existing == GetByEmail(q.email, fail).user
       IN reqs' = [reqs EXCEPT ![r] =
            IF existing # None
            THEN [q EXCEPT !.pc = "done", !.steps = Append(q.steps, "checkEmail"),
                           !.resp = ErrEmailExists(q.lang)]
            ELSE [q EXCEPT !.pc = "checkUsername", !.steps = Append(q.steps, "checkEmail"),
                           !.failed = IF fail THEN @ \cup {"checkEmail"} ELSE @]]
    /\ UNCHANGED <<env, now, users, wallet, lastNotFound, codec, hasher, server, pager, catalog>>

\* existingUser, _ = a.userRepo.GetByUsername(ctx, req.Username)
RegCheckUsername(r, fail) ==
    /\ reqs[r].kind = "register" /\ reqs[r].pc = "checkUsername"
    /\ LET q == reqs[r]
           existing == GetByUsername(q.username, fail).user
       IN reqs' = [reqs EXCEPT ![r] =
            IF existing # None
            THEN [q EXCEPT !.pc = "done", !.steps = Append(q.steps, "checkUsername"),
                           !.resp = ErrUsernameTaken(q.lang)]
            ELSE [q EXCEPT !.pc = "create", !.steps = Append(q.steps, "checkUsername"),
                           !.failed = IF fail THEN @ \cup {"checkUsername"} ELSE @]]
    /\ UNCHANGED <<env, now, users, wallet, lastNotFound, codec, hasher, server, pager, catalog>>

\* RegCreate that does not look at the error of Create
RegCreateIgnoreErr(r, fail) ==
    /\ reqs[r].kind = "register" /\ reqs[r].pc = "create"
    /\ \E salt \in Salts :
         LET q == reqs[r]
             hashed == HashPassword(q.password, salt)
             user == NewUser(Len(users) + 1, q.email, q.username, hashed.hash,
                             q.firstName, q.lastName)
             err == Create(user, fail)
         IN IF hashed.err # ""
            THEN /\ reqs' = [reqs EXCEPT ![r] =
                        [q EXCEPT !.pc = "done", !.steps = Append(q.steps, "hash"),
                                  !.failed = @ \cup {"hash"},
                                  !.resp = ErrHashPassword(q.lang)]]
                 /\ UNCHANGED users
            ELSE /\ users' = IF err # "" THEN users ELSE Append(users, user)
                 /\ reqs' = [reqs EXCEPT ![r] =
                        [q EXCEPT !.pc = "done", !.steps = Append(q.steps, "create"),
                                  !.failed = IF err # "" THEN @ \cup {"create"} ELSE @,
                                  !.handed = user,
                                  !.resp = NewResponse(StatusCreated, "",
                                                       ToRegisterResponse(user), None)]]
    /\ UNCHANGED <<env, now, wallet, lastNotFound, codec, hasher, server, pager, catalog>>

\* HashPassword, NewUser, userRepo.Create, the response
RegCreate(r, fail) ==
    /\ reqs[r].kind = "register" /\ reqs[r].pc = "create"
    /\ \E salt \in Salts :
         LET q == reqs[r]
             hashed == HashPassword(q.password, salt)
             user == NewUser(Len(users) + 1, q.email, q.username, hashed.hash,
                             q.firstName, q.lastName)
             err == Create(user, fail)
         IN IF hashed.err # ""
            THEN /\ reqs' = [reqs EXCEPT ![r] =
                        [q EXCEPT !.pc = "done", !.steps = Append(q.steps, "hash"),
                                  !.failed = @ \cup {"hash"},
                                  !.resp = ErrHashPassword(q.lang)]]
                 /\ UNCHANGED users
            ELSE IF err # ""
            THEN /\ reqs' = [reqs EXCEPT ![r] =
                        [q EXCEPT !.pc = "done", !.steps = Append(q.steps, "create"),
                                  !.failed = @ \cup {"create"}, !.handed = user,
                                  !.resp = ErrCreateUser(q.lang)]]
                 /\ UNCHANGED users
            ELSE /\ users' = Append(users, user)
                 /\ reqs' = [reqs EXCEPT ![r] =
                        [q EXCEPT !.pc = "done", !.steps = Append(q.steps, "create"),
                                  !.handed = user,
                                  !.resp = NewResponse(StatusCreated, "",
                                                       ToRegisterResponse(user), None)]]
    /\ UNCHANGED <<env, now, wallet, lastNotFound, codec, hasher, server, pager, catalog>>


\* ------------------------------------------------------------------------
\* POST /api/v1/auth/login : AuthHandler.Login -> authUsecase.Login
\* ------------------------------------------------------------------------
StartLogin(r) ==
    /\ ~Busy(r)
    /\ \E al \in AcceptLanguages, email \in Emails, password \in Passwords :
          reqs' = [reqs EXCEPT ![r] =
              [IdleReq EXCEPT !.kind = "login", !.pc = "lookup",
                              !.lang = LanguageMiddleware(al),
                              !.ctx = CtxSet(CtxEmpty, LangKey, "Lang", LanguageMiddleware(al)),
                              !.email = email, !.password = Plain(password)]]
    /\ UNCHANGED <<env, now, users, wallet, lastNotFound, codec, hasher, server, pager, catalog>>

\* user, err := a.userRepo.GetByEmail(ctx, req.Email)
LoginLookup(r, fail) ==
    /\ reqs[r].kind = "login" /\ reqs[r].pc = "lookup"
    /\ LET q == reqs[r]
           res == GetByEmail(q.email, fail)
           denied == ErrLoginLookup(q.lang)
       IN IF res.err # ""
          THEN /\ reqs' = [reqs EXCEPT ![r] =
                      [q EXCEPT !.pc = "done", !.steps = Append(q.steps, "lookup"),
                                !.failed = IF fail THEN @ \cup {"lookup"} ELSE @,
                                !.resp = denied]]
               /\ lastNotFound' = IF fail THEN lastNotFound
                                  ELSE [lang |-> q.lang, resp |-> denied]
          ELSE /\ reqs' = [reqs EXCEPT ![r] =
                      [q EXCEPT !.pc = "verify", !.steps = Append(q.steps, "lookup"),
                                !.found = res.user]]
               /\ UNCHANGED lastNotFound
    /\ UNCHANGED <<env, now, users, wallet, codec, hasher, server, pager, catalog>>

\* LoginVerify without the return after a VerifyPassword error
LoginVerifyNoReturn(r) ==
    /\ reqs[r].kind = "login" /\ reqs[r].pc = "verify"
    /\ reqs' = [reqs EXCEPT ![r] =
            [reqs[r] EXCEPT !.pc = "issue", !.steps = Append(reqs[r].steps, "verify")]]
    /\ UNCHANGED <<env, now, users, wallet, lastNotFound, codec, hasher, server, pager, catalog>>

\* crypto.VerifyPassword(user.Password, req.Password)
LoginVerify(r) ==
    /\ reqs[r].kind = "login" /\ reqs[r].pc = "verify"
    /\ LET q == reqs[r]
           err == VerifyPassword(q.found.Password, q.password)
       IN reqs' = [reqs EXCEPT ![r] =
            IF err # ""
            THEN [q EXCEPT !.pc = "done", !.steps = Append(q.steps, "verify"),
                           !.resp = ErrLoginVerify(q.lang)]
            ELSE [q EXCEPT !.pc = "issue", !.steps = Append(q.steps, "verify")]]
    /\ UNCHANGED <<env, now, users, wallet, lastNotFound, codec, hasher, server, pager, catalog>>

\* jwt.GenerateToken(UserPayload{user.ID, user.Email, user.Username}), the response
LoginIssue(r) ==
    /\ reqs[r].kind = "login" /\ reqs[r].pc = "issue"
    /\ \E t \in ClockReads :
         LET q == reqs[r]
             token == GenerateToken(Load(env).JWT.Secret,
                                    UserPayload(q.found.ID, q.found.Email, q.found.Username),
                                    t[1], t[2], t[3])
         IN /\ reqs' = [reqs EXCEPT ![r] =
                   [q EXCEPT !.pc = "done", !.steps = Append(q.steps, "issue"),
                             !.resp = NewResponse(StatusOK, "",
                                                  ToRegisterResponse(q.found), token)]]
            /\ now' = t[3]
    /\ UNCHANGED <<env, users, wallet, lastNotFound, codec, hasher, server, pager, catalog>>

\* ------------------------------------------------------------------------
\* GET /api/v1/users/profile : AuthMiddleware, then UserHandler.GetProfile
\* ------------------------------------------------------------------------
\* a token signed by somebody who does not have the secret
Forge(token) ==
    [token EXCEPT !.sig = HmacSign(token.header.alg, "attacker-key",
                                   token.header, token.claims)]

\* the Authorization header values a client may send
Headers ==
    {<<>>, <<"Bearer ">>, <<"Basic ", "dXNlcjpwdw==">>, <<"Bearer ", GarbageToken>>}
    \cup {<<"Bearer ", t>> : t \in wallet}
    \cup {<<"bearer ", t>> : t \in wallet}
    \cup {<<"Bearer ", Forge(t)>> : t \in wallet}

HasPrefix(header, prefix) == header # <<>> /\ header[1] = prefix

TrimPrefix(header, prefix) == IF HasPrefix(header, prefix) THEN Tail(header) ELSE header

StartProfile(r) ==
    /\ ~Busy(r)
    /\ \E al \in AcceptLanguages, header \in Headers :
          reqs' = [reqs EXCEPT ![r] =
              [IdleReq EXCEPT !.kind = "profile", !.pc = "gate",
                              !.lang = LanguageMiddleware(al),
                              !.ctx = CtxSet(CtxEmpty, LangKey, "Lang", LanguageMiddleware(al)),
                              !.header = header]]
    /\ UNCHANGED <<env, now, users, wallet, lastNotFound, codec, hasher, server, pager, catalog>>

\* AuthDecision without the return after a ValidateToken error
AuthDecisionNoReturn(authHeader, secret, t) ==
    IF authHeader = <<>>
    THEN [abort |-> TRUE, resp |-> Unauthorized("Authorization header is required"),
          validated |-> None]
    ELSE IF ~HasPrefix(authHeader, "Bearer ")
    THEN [abort |-> TRUE, resp |-> Unauthorized("Invalid authorization header format"),
          validated |-> None]
    ELSE IF TrimPrefix(authHeader, "Bearer ") = <<>>
    THEN [abort |-> TRUE, resp |-> Unauthorized("Token is required"), validated |-> None]
    ELSE LET res == ValidateToken(secret, TrimPrefix(authHeader, "Bearer ")[1], t)
         IN [abort |-> FALSE, resp |-> None,
             validated |-> [res EXCEPT !.claims = IF res.err # "" THEN NoClaims ELSE @]]

\* the gate's decision on a header: a 401 response, or the validated claims
AuthDecision(authHeader, secret, t) ==
    IF authHeader = <<>>
    THEN [abort |-> TRUE, resp |-> Unauthorized("Authorization header is required"),
          validated |-> None]
    ELSE IF ~HasPrefix(authHeader, "Bearer ")
    THEN [abort |-> TRUE, resp |-> Unauthorized("Invalid authorization header format"),
          validated |-> None]
    ELSE IF TrimPrefix(authHeader, "Bearer ") = <<>>
    THEN [abort |-> TRUE, resp |-> Unauthorized("Token is required"), validated |-> None]
    ELSE LET res == ValidateToken(secret, TrimPrefix(authHeader, "Bearer ")[1], t)
         IN IF res.err # ""
            THEN [abort |-> TRUE, resp |-> Unauthorized("Invalid token"), validated |-> res]
            ELSE [abort |-> FALSE, resp |-> None, validated |-> res]

\* the routes RegisterRoutes puts AuthMiddleware in front of
Protected == {"profile", "updateProfile", "users"}

\* AuthMiddleware that also refuses the token of a user the table no longer holds
AuthMiddlewareChecksUser(r) ==
    /\ reqs[r].kind \in Protected /\ reqs[r].pc = "gate"
    /\ LET q == reqs[r]
           d == AuthDecision(q.header, Load(env).JWT.Secret, now)
           gone == ~d.abort /\ GetByID(d.validated.claims.UserID, FALSE).err # ""
       IN reqs' = [reqs EXCEPT ![r] =
            IF d.abort \/ gone
            THEN [q EXCEPT !.pc = "done", !.steps = Append(q.steps, "abort"),
                           !.vres = d.validated,
                           !.resp = IF gone THEN Unauthorized("Invalid token") ELSE d.resp]
            ELSE [q EXCEPT !.pc = "handler", !.steps = Append(q.steps, "next"),
                           !.vres = d.validated,
                           !.ctx = CtxSet(CtxSet(CtxSet(q.ctx,
                                       UserIDKey, "string", d.validated.claims.UserID),
                                       UserEmailKey, "string", d.validated.claims.Email),
                                       UserUsernameKey, "string", d.validated.claims.Username)]]
    /\ UNCHANGED <<env, now, users, wallet, lastNotFound, codec, hasher, server, pager, catalog>>

AuthMiddleware(r) ==
    /\ reqs[r].kind \in Protected /\ reqs[r].pc = "gate"
    /\ LET q == reqs[r]
           d == AuthDecision(q.header, Load(env).JWT.Secret, now)
       IN reqs' = [reqs EXCEPT ![r] =
            IF d.abort
            THEN [q EXCEPT !.pc = "done", !.steps = Append(q.steps, "abort"),
                           !.vres = d.validated, !.resp = d.resp]
            ELSE [q EXCEPT !.pc = "handler", !.steps = Append(q.steps, "next"),
                           !.vres = d.validated,
                           !.ctx = CtxSet(CtxSet(CtxSet(q.ctx,
                                       UserIDKey, "string", d.validated.claims.UserID),
                                       UserEmailKey, "string", d.validated.claims.Email),
                                       UserUsernameKey, "string", d.validated.claims.Username)]]
    /\ UNCHANGED <<env, now, users, wallet, lastNotFound, codec, hasher, server, pager, catalog>>

\* the context key the profile handlers read the claims from
SessKey == "sess"

\* userUsecase.GetProfile
UsecaseGetProfile(userID, lang, fail) ==
    LET res == GetByID(userID, fail)
    IN IF res.err # ""
       THEN NewResponse(StatusNotFound, GetError("UserNotFound", lang), None, None)
       ELSE NewResponse(StatusOK, "Profile retrieved successfully",
                        ToUserResponse(res.user), None)

GetProfile(r, fail) ==
    /\ reqs[r].kind = "profile" /\ reqs[r].pc = "handler"
    /\ LET q == reqs[r]
           lang == IF LangKey \in DOMAIN q.ctx /\ q.ctx[LangKey].type = "Lang"
                   THEN q.ctx[LangKey].v ELSE LangEN
           exists == SessKey \in DOMAIN q.ctx
       IN reqs' = [reqs EXCEPT ![r] =
            IF ~exists
            THEN [q EXCEPT !.pc = "done", !.steps = Append(q.steps, "handler"),
                           !.resp = Unauthorized(GetErrorMessage("Unauthorized", lang))]
            ELSE IF q.ctx[SessKey].type # "*jwt.Claims"
            THEN [q EXCEPT !.pc = "done", !.steps = Append(q.steps, "handler"),
                           !.resp = Unauthorized(GetErrorMessage("Unauthorized", lang))]
            ELSE [q EXCEPT !.pc = "done", !.steps = Append(q.steps, "handler"),
                           !.ucUserID = [id |-> q.ctx[SessKey].v.UserID],
                           !.resp = UsecaseGetProfile(q.ctx[SessKey].v.UserID, q.lang, fail)]]
    /\ UNCHANGED <<env, now, users, wallet, lastNotFound, codec, hasher, server, pager, catalog>>

\* ------------------------------------------------------------------------
\* PUT /api/v1/users/profile and GET /api/v1/users
\* ------------------------------------------------------------------------
\* first_name / last_name of an UpdateProfileRequest
UpdateNames == {"", "B"}

\* per_page, page and the email filter of a GET /users query
PerPageQueries == {"", "1"}
PageQueries == {"", "2"}
EmailQueries == {"", "a@x.com"}

StartUpdateProfile(r) ==
    /\ ~Busy(r)
    /\ \E al \in AcceptLanguages, header \in Headers,
          firstName \in UpdateNames, lastName \in UpdateNames :
          reqs' = [reqs EXCEPT ![r] =
              [IdleReq EXCEPT !.kind = "updateProfile", !.pc = "gate",
                              !.lang = LanguageMiddleware(al),
                              !.ctx = CtxSet(CtxEmpty, LangKey, "Lang", LanguageMiddleware(al)),
                              !.header = header,
                              !.firstName = firstName, !.lastName = lastName]]
    /\ UNCHANGED <<env, now, users, wallet, lastNotFound, codec, hasher, server, pager, catalog>>

\* StartUsers for a route registered without AuthMiddleware
StartUsersNoGate(r) ==
    /\ ~Busy(r)
    /\ \E al \in AcceptLanguages, header \in Headers,
          perPage \in PerPageQueries, page \in PageQueries, email \in EmailQueries :
          reqs' = [reqs EXCEPT ![r] =
              [IdleReq EXCEPT !.kind = "users", !.pc = "handler",
                              !.lang = LanguageMiddleware(al),
                              !.ctx = CtxSet(CtxEmpty, LangKey, "Lang", LanguageMiddleware(al)),
                              !.header = header,
                              !.email = email, !.perPage = perPage, !.page = page]]
    /\ UNCHANGED <<env, now, users, wallet, lastNotFound, codec, hasher, server, pager, catalog>>

StartUsers(r) ==
    /\ ~Busy(r)
    /\ \E al \in AcceptLanguages, header \in Headers,
          perPage \in PerPageQueries, page \in PageQueries, email \in EmailQueries :
          reqs' = [reqs EXCEPT ![r] =
              [IdleReq EXCEPT !.kind = "users", !.pc = "gate",
                              !.lang = LanguageMiddleware(al),
                              !.ctx = CtxSet(CtxEmpty, LangKey, "Lang", LanguageMiddleware(al)),
                              !.header = header,
                              !.email = email, !.perPage = perPage, !.page = page]]
    /\ UNCHANGED <<env, now, users, wallet, lastNotFound, codec, hasher, server, pager, catalog>>

\* UserHandler.UpdateProfile up to the call of the use case
UpdateProfile(r) ==
    /\ reqs[r].kind = "updateProfile" /\ reqs[r].pc = "handler"
    /\ LET q == reqs[r]
           lang == IF LangKey \in DOMAIN q.ctx /\ q.ctx[LangKey].type = "Lang"
                   THEN q.ctx[LangKey].v ELSE LangEN
           exists == SessKey \in DOMAIN q.ctx
       IN reqs' = [reqs EXCEPT ![r] =
            IF ~exists
            THEN [q EXCEPT !.pc = "done", !.steps = Append(q.steps, "handler"),
                           !.resp = Unauthorized(GetErrorMessage("Unauthorized", lang))]
            ELSE IF q.ctx[SessKey].type # "*jwt.Claims"
            THEN [q EXCEPT !.pc = "done", !.steps = Append(q.steps, "handler"),
                           !.resp = Unauthorized(GetErrorMessage("Unauthorized", lang))]
            ELSE [q EXCEPT !.pc = "ucGet", !.steps = Append(q.steps, "handler"),
                           !.ucUserID = [id |-> q.ctx[SessKey].v.UserID]]]
    /\ UNCHANGED <<env, now, users, wallet, lastNotFound, codec, hasher, server, pager, catalog>>

\* userUsecase.UpdateProfile: user, err := u.userRepo.GetByID(ctx, userID), the fields
UsecaseUpdateGet(r, fail) ==
    /\ reqs[r].pc = "ucGet"
    /\ LET q == reqs[r]
           res == GetByID(q.ucUserID.id, fail)
       IN reqs' = [reqs EXCEPT ![r] =
            IF res.err # ""
            THEN [q EXCEPT !.pc = "done", !.steps = Append(q.steps, "ucGet"),
                           !.failed = IF fail THEN @ \cup {"ucGet"} ELSE @,
                           !.resp = Failure(StatusNotFound, "UserNotFound", q.lang)]
            ELSE [q EXCEPT !.pc = "ucSave", !.steps = Append(q.steps, "ucGet"),
                           !.found = [res.user EXCEPT
                               !.FirstName = IF q.firstName # "" THEN q.firstName ELSE @,
                               !.LastName = IF q.lastName # "" THEN q.lastName ELSE @]]]
    /\ UNCHANGED <<env, now, users, wallet, lastNotFound, codec, hasher, server, pager, catalog>>

\* userUsecase.UpdateProfile: u.userRepo.Update(ctx, filter, user), the response
UsecaseUpdateSave(r, fail) ==
    /\ reqs[r].pc = "ucSave"
    /\ LET q == reqs[r]
           res == Update(q.ucUserID.id, q.found, fail)
       IN /\ users' = res.users
          /\ reqs' = [reqs EXCEPT ![r] =
               IF res.err # ""
               THEN [q EXCEPT !.pc = "done", !.steps = Append(q.steps, "ucSave"),
                              !.failed = @ \cup {"ucSave"},
                              !.resp = Failure(StatusInternalServerError,
                                               "FailedToUpdateUser", q.lang)]
               ELSE [q EXCEPT !.pc = "done", !.steps = Append(q.steps, "ucSave"),
                              !.resp = NewResponse(StatusOK, "Profile updated successfully",
                                                   ToUserResponse(q.found), None)]]
    /\ UNCHANGED <<env, now, wallet, lastNotFound, codec, hasher, server, pager, catalog>>

\* userUsecase.GetUsers
UsecaseGetUsers(perPage, page, email, lang, fail) ==
    LET pagination == PaginationBuilder(perPage, page)
        filter == [Email |-> email, Username |-> "",
                   PerPage |-> pagination.PerPage, Offset |-> pagination.Offset]
        res == List(filter, fail)
    IN IF res.err # ""
       THEN Failure(StatusInternalServerError, "FailedToGetUsers", lang)
       ELSE NewResponse(StatusOK, "Users retrieved successfully",
                [Users |-> [i \in 1..Len(res.users) |-> ToUserResponse(res.users[i])],
                 Pagination |-> [PerPage   |-> pagination.PerPage,
                                 TotalPage |-> TotalPage(res.total, pagination.PerPage),
                                 TotalData |-> res.total,
                                 Page      |-> pagination.Page]],
                None)

\* UserHandler.GetUsers
GetUsers(r, fail) ==
    /\ reqs[r].kind = "users" /\ reqs[r].pc = "handler"
    /\ LET q == reqs[r]
       IN reqs' = [reqs EXCEPT ![r] =
            [q EXCEPT !.pc = "done", !.steps = Append(q.steps, "handler"),
                      !.failed = IF fail THEN @ \cup {"list"} ELSE @,
                      !.resp = UsecaseGetUsers(q.perPage, q.page, q.email, q.lang, fail)]]
    /\ UNCHANGED <<env, now, users, wallet, lastNotFound, codec, hasher, server, pager, catalog>>

\* ------------------------------------------------------------------------
\* The use cases called directly, as their tests call them
\* ------------------------------------------------------------------------
\* authUsecase.Register(ctx, req): the request is not bound by the handler
CallRegister(r) ==
    /\ ~Busy(r)
    /\ \E al \in AcceptLanguages, email \in Emails, username \in Usernames,
          password \in RegPasswords \cup LongPasswords,
          firstName \in Names, lastName \in Names :
          /\ \/ Taken(email, username)
             \/ Len(users) + Cardinality({q \in DOMAIN reqs : reqs[q].kind = "register"})
                  < MaxUsers
          /\ reqs' = [reqs EXCEPT ![r] =
                 [IdleReq EXCEPT !.kind = "register", !.pc = "checkEmail",
                                 !.lang = LanguageMiddleware(al),
                                 !.email = email, !.username = username,
                                 !.password = Plain(password),
                                 !.firstName = firstName, !.lastName = lastName]]
    /\ UNCHANGED <<env, now, users, wallet, lastNotFound, codec, hasher, server, pager, catalog>>

\* userUsecase.GetProfile(ctx, userID)
CallGetProfile(r, fail) ==
    /\ ~Busy(r)
    /\ \E al \in AcceptLanguages, userID \in 1..MaxUsers :
          reqs' = [reqs EXCEPT ![r] =
              [IdleReq EXCEPT !.kind = "ucGetProfile", !.pc = "done",
                              !.lang = LanguageMiddleware(al),
                              !.ucUserID = [id |-> userID],
                              !.steps = <<"ucGet">>,
                              !.failed = IF fail THEN {"ucGet"} ELSE {},
                              !.resp = UsecaseGetProfile(userID, LanguageMiddleware(al), fail)]]
    /\ UNCHANGED <<env, now, users, wallet, lastNotFound, codec, hasher, server, pager, catalog>>

\* userUsecase.UpdateProfile(ctx, userID, req)
CallUpdateProfile(r) ==
    /\ ~Busy(r)
    /\ \E al \in AcceptLanguages, userID \in 1..MaxUsers,
          firstName \in UpdateNames, lastName \in UpdateNames :
          reqs' = [reqs EXCEPT ![r] =
              [IdleReq EXCEPT !.kind = "ucUpdateProfile", !.pc = "ucGet",
                              !.lang = LanguageMiddleware(al),
                              !.ucUserID = [id |-> userID],
                              !.firstName = firstName, !.lastName = lastName]]
    /\ UNCHANGED <<env, now, users, wallet, lastNotFound, codec, hasher, server, pager, catalog>>

\* userUsecase.GetUsers(ctx, queries)
CallGetUsers(r, fail) ==
    /\ ~Busy(r)
    /\ \E al \in AcceptLanguages, perPage \in PerPageQueries, page \in PageQueries,
          email \in EmailQueries :
          reqs' = [reqs EXCEPT ![r] =
              [IdleReq EXCEPT !.kind = "ucGetUsers", !.pc = "done",
                              !.lang = LanguageMiddleware(al),
                              !.email = email, !.perPage = perPage, !.page = page,
                              !.steps = <<"list">>,
                              !.failed = IF fail THEN {"list"} ELSE {},
                              !.resp = UsecaseGetUsers(perPage, page, email,
                                                       LanguageMiddleware(al), fail)]]
    /\ UNCHANGED <<env, now, users, wallet, lastNotFound, codec, hasher, server, pager, catalog>>

\* the call of a use case returns to its caller
Return(r) ==
    /\ reqs[r].pc = "done"
    /\ reqs' = [reqs EXCEPT ![r] = IdleReq]
    /\ UNCHANGED <<env, now, users, wallet, lastNotFound, codec, hasher, server, pager, catalog>>

\* userRepository.Delete(ctx, id) on a user the table holds
DeleteUser(id) ==
    /\ GetByID(id, FALSE).err = ""
    /\ users' = Delete(id, FALSE).users
    /\ UNCHANGED <<env, now, wallet, reqs, lastNotFound, codec, hasher, server, pager, catalog>>

\* the response goes out; the client may keep the token of a Login response
Respond(r) ==
    /\ reqs[r].pc = "done"
    /\ reqs' = [reqs EXCEPT ![r] = IdleReq]
    /\ IF reqs[r].resp.token # None
       THEN wallet' \in {w \in SUBSET (wallet \cup {reqs[r].resp.token}) :
                           Cardinality(w) <= MaxTokens}
       ELSE UNCHANGED wallet
    /\ UNCHANGED <<env, now, users, lastNotFound, codec, hasher, server, pager, catalog>>

\* ------------------------------------------------------------------------
\* Specifications
\* ------------------------------------------------------------------------
Init ==
    /\ env \in EnvSecrets
    /\ now = 0
    /\ users = <<>>
    /\ wallet = {}
    /\ reqs = [r \in Reqs |-> IdleReq]
    /\ lastNotFound = None
    /\ codec = CodecIdle
    /\ hasher = HasherIdle
    /\ server = Serving
    /\ pager = PagerIdle
    /\ catalog = CatalogIdle

\* the service with a reliable users table
Next ==
    \/ Tick
    \/ \E r \in Reqs :
         \/ StartRegister(r)
         \/ RegCheckEmail(r, FALSE)
         \/ RegCheckUsername(r, FALSE)
         \/ RegCreate(r, FALSE)
         \/ StartLogin(r)
         \/ LoginLookup(r, FALSE)
         \/ LoginVerify(r)
         \/ LoginIssue(r)
         \/ StartProfile(r)
         \/ AuthMiddleware(r)
         \/ GetProfile(r, FALSE)
         \/ Respond(r)

Spec == Init /\ [][Next]_vars

\* the protected routes of a service that has registered users and has issued
\* a token to the first of them
Registered ==
    <<NewUser(1, "a@x.com", "alice", HashPassword(Plain("secret123"), "s1").hash, "A", "A"),
      NewUser(2, "b@x.com", "bob", HashPassword(Plain("secret123"), "s1").hash, "A", "A")>>

InitRoutes ==
    /\ env \in EnvSecrets
    /\ now = 0
    /\ users \in {SubSeq(Registered, 1, n) : n \in 1..MaxUsers \cap 1..Len(Registered)}
    /\ wallet = {GenerateToken(Load(env).JWT.Secret,
                               UserPayload(1, "a@x.com", "alice"), 0, 0, 0)}
    /\ reqs = [r \in Reqs |-> IdleReq]
    /\ lastNotFound = None
    /\ codec = CodecIdle
    /\ hasher = HasherIdle
    /\ server = Serving
    /\ pager = PagerIdle
    /\ catalog = CatalogIdle

NextRoutes ==
    \/ Tick
    \/ \E r \in Reqs :
         \/ StartProfile(r)
         \/ StartUpdateProfile(r)
         \/ StartUsers(r)
         \/ AuthMiddleware(r)
         \/ GetProfile(r, FALSE)
         \/ UpdateProfile(r)
         \/ GetUsers(r, FALSE)
         \/ Respond(r)

SpecRoutes == InitRoutes /\ [][NextRoutes]_vars

\* the service with users registered and a token issued, under every operation
\* on the users table; the client keeps the token it holds
NextTokens ==
    \/ Tick
    \/ \E id \in 1..MaxUsers : DeleteUser(id)
    \/ \E r \in Reqs :
         \/ StartRegister(r)
         \/ RegCheckEmail(r, FALSE)
         \/ RegCheckUsername(r, FALSE)
         \/ RegCreate(r, FALSE)
         \/ StartLogin(r)
         \/ LoginLookup(r, FALSE)
         \/ LoginVerify(r)
         \/ LoginIssue(r)
         \/ CallUpdateProfile(r)
         \/ UsecaseUpdateGet(r, FALSE)
         \/ UsecaseUpdateSave(r, FALSE)
         \/ StartProfile(r)
         \/ AuthMiddleware(r)
         \/ GetProfile(r, FALSE)
         \/ Return(r)

SpecTokens == InitRoutes /\ [][NextTokens]_vars

\* two calls in flight at once
Slots == {1, 2}

InitPair ==
    /\ env \in EnvSecrets
    /\ now = 0
    /\ users \in {SubSeq(Registered, 1, n) : n \in 1..MaxUsers \cap 1..Len(Registered)}
    /\ wallet = {}
    /\ reqs = [r \in Slots |-> IdleReq]
    /\ lastNotFound = None
    /\ codec = CodecIdle
    /\ hasher = HasherIdle
    /\ server = Serving
    /\ pager = PagerIdle
    /\ catalog = CatalogIdle

\* concurrent UpdateProfile calls of the use case
NextUpdates ==
    \E r \in Slots :
        \/ CallUpdateProfile(r)
        \/ Return(r)
        \/ \E fail \in BOOLEAN :
              \/ UsecaseUpdateGet(r, fail)
              \/ UsecaseUpdateSave(r, fail)

SpecUpdates == InitPair /\ [][NextUpdates]_vars

\* ------------------------------------------------------------------------
\* cmd/api main: ListenAndServe in a goroutine, wait for SIGINT / SIGTERM,
\* server.Shutdown(context.Background()), exit
\* ------------------------------------------------------------------------
\* go func() { server.ListenAndServe() }: ErrServerClosed once Shutdown was called
ListenAndServe ==
    /\ server.listen = "starting"
    /\ server' = [server EXCEPT !.listen = IF server.main = "waiting" THEN "open" ELSE "closed"]
    /\ UNCHANGED <<env, now, users, wallet, reqs, lastNotFound, codec, hasher, pager, catalog>>

\* the open listener accepts a connection and the request enters the chain
Accept(r) ==
    /\ server.listen = "open"
    /\ StartProfile(r)

\* SIGINT or SIGTERM is delivered: signal.Notify sends on quit, a channel of
\* capacity 1, without blocking
Signal ==
    /\ server.main # "exited"
    /\ server' = [server EXCEPT !.quit = 1]
    /\ UNCHANGED <<env, now, users, wallet, reqs, lastNotFound, codec, hasher, pager, catalog>>

\* <-quit, then server.Shutdown closes the listener
Shutdown ==
    /\ server.main = "waiting" /\ server.quit = 1
    /\ server' = [server EXCEPT !.quit = 0, !.main = "shutdown",
                                !.listen = IF @ = "open" THEN "closed" ELSE @,
                                !.inflight = \E r \in Reqs : Busy(r)]
    /\ UNCHANGED <<env, now, users, wallet, reqs, lastNotFound, codec, hasher, pager, catalog>>

\* Shutdown that returns at once, as server.Close would
ShutdownReturnNow ==
    /\ server.main = "shutdown"
    /\ server' = [server EXCEPT !.main = "stopped"]
    /\ UNCHANGED <<env, now, users, wallet, reqs, lastNotFound, codec, hasher, pager, catalog>>

\* Shutdown returns once no connection is active: its context has no deadline
ShutdownReturn ==
    /\ server.main = "shutdown"
    /\ \A r \in Reqs : ~Busy(r)
    /\ server' = [server EXCEPT !.main = "stopped"]
    /\ UNCHANGED <<env, now, users, wallet, reqs, lastNotFound, codec, hasher, pager, catalog>>

\* "Server exited", the deferred application.Close(), main returns
Exit ==
    /\ server.main = "stopped"
    /\ server' = [server EXCEPT !.main = "exited"]
    /\ UNCHANGED <<env, now, users, wallet, reqs, lastNotFound, codec, hasher, pager, catalog>>

\* a handler goroutine of the process runs a step
Serve(r) ==
    /\ server.main # "exited"
    /\ (AuthMiddleware(r) \/ GetProfile(r, FALSE) \/ Respond(r))

InitServer ==
    /\ env \in EnvSecrets
    /\ now = 0
    /\ users \in {SubSeq(Registered, 1, n) : n \in 1..MaxUsers \cap 1..Len(Registered)}
    /\ wallet = {GenerateToken(Load(env).JWT.Secret,
                               UserPayload(1, "a@x.com", "alice"), 0, 0, 0)}
    /\ reqs = [r \in Reqs |-> IdleReq]
    /\ lastNotFound = None
    /\ codec = CodecIdle
    /\ hasher = HasherIdle
    /\ server = [Serving EXCEPT !.listen = "starting"]
    /\ pager = PagerIdle
    /\ catalog = CatalogIdle

NextServer ==
    \/ ListenAndServe
    \/ Signal
    \/ Shutdown
    \/ ShutdownReturn
    \/ Exit
    \/ \E r \in Reqs : Accept(r) \/ Serve(r)

SpecServer == InitServer /\ [][NextServer]_vars

\* the scheduler runs main and every handler goroutine; handlers return
SpecServerLive ==
    /\ SpecServer
    /\ WF_vars(Shutdown) /\ WF_vars(ShutdownReturn) /\ WF_vars(Exit)
    /\ \A r \in Reqs : WF_vars(Serve(r))

\* two requests in flight at once, the clients holding the tokens of two users
InitGatePair ==
    /\ env \in EnvSecrets
    /\ now = 0
    /\ users = Registered
    /\ wallet = {GenerateToken(Load(env).JWT.Secret, UserPayload(1, "a@x.com", "alice"), 0, 0, 0),
                 GenerateToken(Load(env).JWT.Secret, UserPayload(2, "b@x.com", "bob"), 0, 0, 0)}
    /\ reqs = [r \in Slots |-> IdleReq]
    /\ lastNotFound = None
    /\ codec = CodecIdle
    /\ hasher = HasherIdle
    /\ server = Serving
    /\ pager = PagerIdle
    /\ catalog = CatalogIdle

NextGatePair ==
    \E r \in Slots :
        \/ StartProfile(r)
        \/ StartUpdateProfile(r)
        \/ AuthMiddleware(r)
        \/ GetProfile(r, FALSE)
        \/ UpdateProfile(r)
        \/ Return(r)

SpecGatePair == InitGatePair /\ [][NextGatePair]_vars

\* os.Setenv("JWT_SECRET", value) somewhere in the running process
Setenv(value) ==
    /\ value # env
    /\ env' = value
    /\ UNCHANGED <<now, users, wallet, reqs, lastNotFound, codec, hasher, server, pager, catalog>>

\* the service while the environment of the process changes
NextEnv ==
    \/ \E value \in EnvSecrets \cup Secrets : Setenv(value)
    \/ \E r \in Reqs :
         \/ StartLogin(r)
         \/ LoginLookup(r, FALSE)
         \/ LoginVerify(r)
         \/ LoginIssue(r)
         \/ StartProfile(r)
         \/ AuthMiddleware(r)
         \/ GetProfile(r, FALSE)
         \/ Return(r)

SpecEnv == InitRoutes /\ [][NextEnv]_vars

\* two Register calls in flight at once, on an empty table
InitRegisterPair ==
    /\ env \in EnvSecrets
    /\ now = 0
    /\ users = <<>>
    /\ wallet = {}
    /\ reqs = [r \in Slots |-> IdleReq]
    /\ lastNotFound = None
    /\ codec = CodecIdle
    /\ hasher = HasherIdle
    /\ server = Serving
    /\ pager = PagerIdle
    /\ catalog = CatalogIdle

NextRegisterPair ==
    \E r \in Slots :
        \/ StartRegister(r)
        \/ RegCheckEmail(r, FALSE)
        \/ RegCheckUsername(r, FALSE)
        \/ RegCreate(r, FALSE)
        \/ Return(r)

SpecRegisterPair == InitRegisterPair /\ [][NextRegisterPair]_vars

\* the profile routes, and the profile use cases called as the handlers call them
NextProfiles ==
    \E r \in Reqs :
        \/ StartProfile(r)
        \/ StartUpdateProfile(r)
        \/ AuthMiddleware(r)
        \/ GetProfile(r, FALSE)
        \/ UpdateProfile(r)
        \/ CallGetProfile(r, FALSE)
        \/ CallUpdateProfile(r)
        \/ UsecaseUpdateGet(r, FALSE)
        \/ UsecaseUpdateSave(r, FALSE)
        \/ Return(r)

SpecProfiles == InitRoutes /\ [][NextProfiles]_vars

\* the pagination alone, on every pair of query values and every row count
InitPagination ==
    /\ env = ""
    /\ now = 0
    /\ users = <<>>
    /\ wallet = {}
    /\ reqs = [r \in Reqs |-> IdleReq]
    /\ lastNotFound = None
    /\ codec = CodecIdle
    /\ hasher = HasherIdle
    /\ server = Serving
    /\ catalog = CatalogIdle
    /\ \E perPage \in PerPageValues, page \in PageValues, total \in 0..MaxRows :
         pager = [PagerIdle EXCEPT !.pc = "start", !.perPage = perPage, !.page = page,
                                   !.total = total]

NextPagination == PagerBuild \/ PagerTotal

SpecPagination == InitPagination /\ [][NextPagination]_vars

\* the product update exercised alone: one stored product, one PUT request
InitProducts ==
    /\ env = ""
    /\ now = 0
    /\ users = <<>>
    /\ wallet = {}
    /\ reqs = [r \in Reqs |-> IdleReq]
    /\ lastNotFound = None
    /\ codec = CodecIdle
    /\ hasher = HasherIdle
    /\ server = Serving
    /\ pager = PagerIdle
    /\ \E stored \in StoredProducts, id \in {"p1", "p2"}, body \in ProductBodies :
         catalog = [CatalogIdle EXCEPT !.pc = "start", !.products = <<stored>>,
                                       !.id = id, !.body = body]

NextProducts ==
    \/ UpdateProduct
    \/ UsecaseUpdateProductGet
    \/ \E fail \in BOOLEAN : UsecaseUpdateProductSave(fail)

SpecProducts == InitProducts /\ [][NextProducts]_vars

\* the use cases on a users table whose every call may fail
NextCore ==
    \E r \in Reqs :
        \/ CallRegister(r)
        \/ StartLogin(r)
        \/ LoginVerify(r)
        \/ LoginIssue(r)
        \/ CallUpdateProfile(r)
        \/ Return(r)
        \/ \E fail \in BOOLEAN :
              \/ RegCheckEmail(r, fail)
              \/ RegCheckUsername(r, fail)
              \/ RegCreate(r, fail)
              \/ LoginLookup(r, fail)
              \/ CallGetProfile(r, fail)
              \/ UsecaseUpdateGet(r, fail)
              \/ UsecaseUpdateSave(r, fail)
              \/ CallGetUsers(r, fail)

SpecCore == Init /\ [][NextCore]_vars

\* the codec alone
InitJwt ==
    /\ env = ""
    /\ now = 0
    /\ users = <<>>
    /\ wallet = {}
    /\ reqs = [r \in Reqs |-> IdleReq]
    /\ lastNotFound = None
    /\ codec = CodecIdle
    /\ hasher = HasherIdle
    /\ server = Serving
    /\ pager = PagerIdle
    /\ catalog = CatalogIdle

NextJwt == Tick \/ CodecIssue \/ CodecIssueForeign \/ CodecValidate \/ CodecReset

SpecJwt == InitJwt /\ [][NextJwt]_vars

\* the hasher alone, on every pair of passwords
InitCrypto ==
    /\ env = ""
    /\ now = 0
    /\ users = <<>>
    /\ wallet = {}
    /\ reqs = [r \in Reqs |-> IdleReq]
    /\ lastNotFound = None
    /\ codec = CodecIdle
    /\ \E p1 \in HasherPasswords, p2 \in HasherPasswords :
         hasher = [HasherIdle EXCEPT !.pc = "start", !.p1 = p1, !.p2 = p2]
    /\ server = Serving
    /\ pager = PagerIdle
    /\ catalog = CatalogIdle

NextCrypto == HasherHash \/ HasherVerify \/ HasherCheck

SpecCrypto == InitCrypto /\ [][NextCrypto]_vars


\* ========================================================================
\* Properties
\* ========================================================================
Profiles == {r \in Reqs : reqs[r].kind = "profile"}
Logins == {r \in Reqs : reqs[r].kind = "login"}
Registers == {r \in Reqs : reqs[r].kind = "register"}

\* the gate has to refuse the request: no header, no "Bearer " prefix, an empty
\* token, or a token that ValidateToken returned an error for
MustRefuse(q) ==
    \/ q.header = <<>>
    \/ ~HasPrefix(q.header, "Bearer ")
    \/ TrimPrefix(q.header, "Bearer ") = <<>>
    \/ (q.vres # None /\ q.vres.err # "")

HandlerRan(q) == q.pc = "handler" \/ (Len(q.steps) >= 2 /\ q.steps[2] = "handler")

\* C1: once the gate has decided on a request, a request it has to refuse (missing
\* header, header without the "Bearer " prefix, empty token, ValidateToken error)
\* is finished with a 401 response, the chain aborted and the handler not run;
\* the handler runs only for requests whose token ValidateToken accepted.
C1_GateGuardsHandler ==
    \A r \in Profiles :
        LET q == reqs[r] IN
        q.pc # "gate" =>
            /\ MustRefuse(q) =>
                 /\ q.pc = "done"
                 /\ q.steps = <<"abort">>
                 /\ q.resp.status = StatusUnauthorized
                 /\ q.ucUserID = None
            /\ HandlerRan(q) =>
                 /\ ~MustRefuse(q)
                 /\ q.vres # None /\ q.vres.err = ""
                 /\ q.steps[1] = "next"

\* a request whose token ValidateToken rejected has been answered
C1_Witness ==
    \E r \in Profiles :
        /\ reqs[r].pc = "done"
        /\ reqs[r].vres # None /\ reqs[r].vres.err # ""
        /\ reqs[r].resp.status = StatusUnauthorized


\* C2: a Login that fails because the password is wrong gets exactly the response
\* (status, error message, no user, no token) that a Login in the same language
\* got for an email that is not registered.
C2_LoginFailuresAlike ==
    \A r \in Logins :
        LET q == reqs[r] IN
        (/\ q.pc = "done"
         /\ q.steps = <<"lookup", "verify">>
         /\ lastNotFound # None
         /\ lastNotFound.lang = q.lang)
        => q.resp = lastNotFound.resp

\* a wrong-password Login has failed after an unknown-email Login in the same language
C2_Witness ==
    \E r \in Logins :
        /\ reqs[r].pc = "done"
        /\ reqs[r].steps = <<"lookup", "verify">>
        /\ reqs[r].found # None
        /\ VerifyPassword(reqs[r].found.Password, reqs[r].password) # ""
        /\ lastNotFound # None
        /\ lastNotFound.lang = reqs[r].lang
        /\ reqs[r].resp.status = StatusUnauthorized

IsPrefix(s, t) == Len(s) <= Len(t) /\ \A i \in 1..Len(s) : s[i] = t[i]

\* C3: the steps of a Login are a prefix of lookup, verify, issue; verify runs only
\* on a user the lookup found, issue only after the password matched that user's
\* hash, and only a call that went through all three returns a token.
C3_LoginOrder ==
    \A r \in Logins :
        LET q == reqs[r] IN
        /\ IsPrefix(q.steps, <<"lookup", "verify", "issue">>)
        /\ Len(q.steps) >= 2 => q.found # None
        /\ Len(q.steps) = 3 =>
             /\ q.found.Password.alg = "bcrypt"
             /\ VerifyPassword(q.found.Password, q.password) = ""
        /\ q.pc = "done" =>
             /\ (q.resp.token # None) = (Len(q.steps) = 3)
             /\ Len(q.steps) < 3 => q.resp.status = StatusUnauthorized /\ q.resp.user = None

\* a Login whose password verification failed has ended without a token
C3_Witness ==
    \E r \in Logins :
        /\ reqs[r].pc = "done"
        /\ reqs[r].steps = <<"lookup", "verify">>
        /\ reqs[r].resp.token = None


EmailHeld(email) == \E i \in 1..Len(users) : users[i].Email = email

UsernameHeld(username) == \E i \in 1..Len(users) : users[i].Username = username

\* C4: while a Register call is running with an email the users table already
\* holds, no step adds a row to the table, and the call's own step ends it with
\* the duplicate-email error (status 400, "user already exists") and no user,
\* whether or not the username is taken as well.
C4_DuplicateEmail ==
    [][\A r \in Reqs :
          (/\ reqs[r].kind = "register"
           /\ reqs[r].pc # "done"
           /\ EmailHeld(reqs[r].email))
          => /\ users' = users
             /\ reqs'[r] # reqs[r] =>
                  /\ reqs'[r].pc = "done"
                  /\ reqs'[r].resp = NewResponse(StatusBadRequest,
                                                 GetError("UserAlreadyExists", reqs[r].lang),
                                                 None, None)]_vars

\* a Register with an email and a username that are both taken (by two users) has
\* ended with the duplicate-email error
C4_Witness ==
    \E r \in Registers :
        /\ reqs[r].pc = "done"
        /\ EmailHeld(reqs[r].email)
        /\ \E i \in 1..Len(users) :
              users[i].Username = reqs[r].username /\ users[i].Email # reqs[r].email
        /\ reqs[r].resp.status = StatusBadRequest
        /\ reqs[r].resp.message = GetError("UserAlreadyExists", reqs[r].lang)
        /\ Len(users) = 2

\* the messages of the duplicate-email error, in every language
DuplicateEmailMessages == {GetError("UserAlreadyExists", l) : l \in {LangEN, LangID}}

\* C5: while a Register call is running with an email the users table does not
\* hold and a username it holds, no step adds a row to the table, the call's steps
\* go from the email check to the username check and end there with the
\* duplicate-username error: status 400 and a message that is none of the
\* duplicate-email messages, and no user.
C5_DuplicateUsername ==
    [][\A r \in Reqs :
          (/\ reqs[r].kind = "register"
           /\ reqs[r].pc # "done"
           /\ ~EmailHeld(reqs[r].email)
           /\ UsernameHeld(reqs[r].username))
          => /\ users' = users
             /\ reqs'[r] # reqs[r] =>
                  IF reqs[r].pc = "checkEmail"
                  THEN reqs'[r].pc = "checkUsername"
                  ELSE /\ reqs[r].pc = "checkUsername"
                       /\ reqs'[r].pc = "done"
                       /\ reqs'[r].resp = NewResponse(StatusBadRequest,
                                              GetError("UsernameAlreadyTaken", reqs[r].lang),
                                              None, None)
                       /\ reqs'[r].resp.message \notin DuplicateEmailMessages]_vars

\* a Register with a free email and a taken username has ended with the
\* duplicate-username error
C5_Witness ==
    \E r \in Registers :
        /\ reqs[r].pc = "done"
        /\ ~EmailHeld(reqs[r].email)
        /\ UsernameHeld(reqs[r].username)
        /\ reqs[r].resp.status = StatusBadRequest
        /\ reqs[r].resp.message = GetError("UsernameAlreadyTaken", reqs[r].lang)


\* C6: a profile request that carried a token Login issued and that the gate let
\* through is not answered 401 by the handler: the handler calls the use case with
\* the user id of the token's claims.
C6_HandlerReadsGateEntry ==
    \A r \in Profiles :
        LET q == reqs[r] IN
        (/\ q.pc = "done"
         /\ q.steps[1] = "next"
         /\ TrimPrefix(q.header, "Bearer ")[1] \in wallet)
        => /\ q.resp.status # StatusUnauthorized
           /\ q.ucUserID = [id |-> q.vres.claims.UserID]

\* C7: every request the gate refuses gets the status and the message that a
\* request without an Authorization header gets.
C7_RefusalsAlike ==
    \A r \in Profiles :
        LET q == reqs[r]
            noHeader == AuthDecision(<<>>, Load(env).JWT.Secret, now).resp
        IN (q.pc = "done" /\ q.steps = <<"abort">>)
           => /\ q.resp.status = noHeader.status
              /\ q.resp.message = noHeader.message

\* the user fields of the claims are those of the payload
SameUser(claims, user) ==
    /\ claims.UserID = user.ID
    /\ claims.Email = user.Email
    /\ claims.Username = user.Username

Validated == codec.pc = "validated"

\* C8: validating a token that GenerateTokenWithExpiry made, with the secret it
\* was generated with and before its expiry, succeeds and returns claims whose user id, email and username are those
\* of the payload it was generated for.
C8_RoundTrip ==
    (/\ Validated
     /\ codec.minted
     /\ codec.vsecret = codec.secret
     /\ codec.vtime < codec.token.claims.ExpiresAt)
    => /\ codec.result.err = ""
       /\ codec.result.claims # None
       /\ SameUser(codec.result.claims, codec.user)

\* a token generated by GenerateToken's expiry of 24 hours has been validated
\* with its own secret
C8_Witness ==
    /\ Validated
    /\ codec.minted
    /\ codec.vsecret = codec.secret
    /\ codec.expiry = TokenTTL
    /\ codec.result.err = ""
    /\ codec.result.claims.Email \in Emails

\* C9: validating a token with a secret other than the one it was generated with
\* returns an error and no claims.
C9_WrongSecret ==
    (Validated /\ codec.vsecret # codec.secret)
    => /\ codec.result.err # ""
       /\ codec.result.claims = None

\* an unexpired token has been validated with another secret
C9_Witness ==
    /\ Validated
    /\ codec.vsecret # codec.secret
    /\ codec.vtime < codec.token.claims.ExpiresAt
    /\ codec.result.err # ""

\* C10: validating a token after its expiry time returns an error and no claims,
\* also with the secret the token was generated with.
C10_Expired ==
    (Validated /\ codec.vtime > codec.token.claims.ExpiresAt)
    => /\ codec.result.err # ""
       /\ codec.result.claims = None

\* a 24-hour token has been validated with its own secret after its expiry
C10_Witness ==
    /\ Validated
    /\ codec.vsecret = codec.secret
    /\ codec.expiry = TokenTTL
    /\ codec.vtime > codec.token.claims.ExpiresAt
    /\ codec.result.err = "token is expired"


\* C11: ValidateToken returns an error and no claims for every token whose header
\* declares an algorithm other than HS256, also when the token is signed with the
\* secret ValidateToken is called with.
C11_AlgorithmPinned ==
    (Validated /\ codec.token.header.alg # SigningMethodHS256)
    => /\ codec.result.err # ""
       /\ codec.result.claims = None


\* a result carries no password: it has no password field, or an empty one
NoPassword(u) == "Password" \in DOMAIN u => u.Password = Plain("")

Succeeded(q) == q.pc = "done" /\ q.resp.status \in {StatusOK, StatusCreated}

\* C12: every successful result of Register, Login, GetProfile, UpdateProfile and
\* GetUsers carries no password: the user of the result, and every user of a
\* GetUsers list, has no password field or an empty one.
C12_NoPasswordReturned ==
    \A r \in Reqs :
        LET q == reqs[r] IN
        Succeeded(q) =>
            IF q.kind = "ucGetUsers"
            THEN \A i \in 1..Len(q.resp.user.Users) : NoPassword(q.resp.user.Users[i])
            ELSE NoPassword(q.resp.user)

\* GetUsers has returned a list with a user whose row holds a bcrypt hash
C12_Witness ==
    \E r \in Reqs :
        /\ reqs[r].kind = "ucGetUsers"
        /\ Succeeded(reqs[r])
        /\ Len(reqs[r].resp.user.Users) >= 1
        /\ \E i \in 1..Len(users) : users[i].Password.alg = "bcrypt"

\* C13: every user record Register hands to Create carries the bcrypt hash of the
\* submitted password and not the submitted password, and no row of the users
\* table holds a plaintext password.
C13_OnlyHashStored ==
    /\ \A r \in Registers :
          LET q == reqs[r] IN
          q.handed # None =>
              /\ q.handed.Password # q.password
              /\ q.handed.Password.alg = "bcrypt"
              /\ VerifyPassword(q.handed.Password, q.password) = ""
    /\ \A i \in 1..Len(users) : users[i].Password.alg = "bcrypt"

\* a Register has handed a user to Create and the table holds it
C13_Witness ==
    \E r \in Registers :
        /\ reqs[r].pc = "done"
        /\ reqs[r].resp.status = StatusCreated
        /\ \E i \in 1..Len(users) : users[i] = reqs[r].handed


\* C14: a Login with a registered email and the password that matches the stored
\* hash ends with status 200, that user without a password, and a token that
\* ValidateToken accepts at the time it was issued and whose claims carry that
\* user's id, email and username.
C14_LoginSucceeds ==
    \A r \in Logins :
        LET q == reqs[r]
            res == GetByEmail(q.email, FALSE)
        IN (/\ q.pc = "done"
            /\ res.err = ""
            /\ VerifyPassword(res.user.Password, q.password) = "")
           => /\ q.resp.status = StatusOK
              /\ q.resp.user # None
              /\ q.resp.user.ID = res.user.ID
              /\ q.resp.user.Email = res.user.Email
              /\ q.resp.user.Username = res.user.Username
              /\ q.resp.token # None
              /\ q.resp.token.wf
              /\ SameUser(q.resp.token.claims, res.user)
              /\ ValidateToken(Load(env).JWT.Secret, q.resp.token,
                               q.resp.token.claims.NotBefore).claims = q.resp.token.claims

\* the second registered user has logged in and got a token
C14_Witness ==
    \E r \in Logins :
        /\ reqs[r].pc = "done"
        /\ reqs[r].resp.status = StatusOK
        /\ reqs[r].resp.token # None
        /\ reqs[r].resp.user.ID = 2


\* C15: a Register whose email or username lookup failed with an error other than
\* not-found ends there with an infrastructure error: it does not go on to the
\* next step, and hands no user to Create.
C15_RegisterLookupFailure ==
    \A r \in Registers :
        LET q == reqs[r] IN
        (q.failed \cap {"checkEmail", "checkUsername"} # {})
        => /\ q.pc = "done"
           /\ q.resp.status = StatusInternalServerError
           /\ q.resp.user = None
           /\ q.handed = None

\* C16: a Login whose user lookup failed with an error other than not-found fails
\* with an error that is not the InvalidCredentials error.
C16_LoginLookupFailure ==
    \A r \in Logins :
        LET q == reqs[r] IN
        (q.pc = "done" /\ "lookup" \in q.failed)
        => /\ q.resp.token = None
           /\ q.resp.user = None
           /\ q.resp.message # GetError("InvalidCredentials", q.lang)

\* C17: a Register in which the hashing or Create failed returns an error and no
\* user; a Register that returns a user has handed it to a Create that succeeded,
\* and the table holds it.
C17_RegisterFailure ==
    \A r \in Registers :
        LET q == reqs[r] IN
        q.pc = "done" =>
            /\ (q.failed \cap {"hash", "create"} # {}
                => /\ q.resp.user = None
                   /\ q.resp.status = StatusInternalServerError)
            /\ (q.resp.user # None
                => /\ q.handed # None
                   /\ "create" \notin q.failed
                   /\ \E i \in 1..Len(users) :
                         users[i].ID = q.handed.ID /\ users[i].Email = q.handed.Email)

\* a Register whose lookups found nothing has ended with the error of a failed Create
C17_Witness ==
    \E r \in Registers :
        /\ reqs[r].pc = "done"
        /\ reqs[r].failed = {"create"}
        /\ reqs[r].resp = ErrCreateUser(reqs[r].lang)
        /\ ~Taken(reqs[r].email, reqs[r].username)

\* a Register has ended with the error of a failed hashing
C17_HashFailed ==
    \E r \in Registers : reqs[r].pc = "done" /\ reqs[r].resp = ErrHashPassword(reqs[r].lang)


\* C18: the token of every successful Login has an expiry equal to its issued-at
\* time plus 24 hours and a not-before equal to its issued-at time.
C18_ExpiryFromIssuedAt ==
    \A r \in Logins :
        LET q == reqs[r] IN
        (q.pc = "done" /\ q.resp.token # None)
        => /\ q.resp.token.claims.ExpiresAt = q.resp.token.claims.IssuedAt + TokenTTL
           /\ q.resp.token.claims.NotBefore = q.resp.token.claims.IssuedAt

\* the endpoints documented as requiring authentication
Documented == {"profile", "updateProfile", "users"}

\* C19: on every request to GET /users/profile, PUT /users/profile and GET /users
\* the gate is the first step and the handler runs only as the step after a gate
\* that validated the token and called Next.
C19_GateBeforeHandler ==
    \A r \in Reqs :
        LET q == reqs[r] IN
        q.kind \in Documented =>
            /\ (q.steps # <<>> => q.steps[1] \in {"abort", "next"})
            /\ (q.pc = "handler" => q.steps = <<"next">> /\ q.vres.err = "")
            /\ \A i \in 1..Len(q.steps) :
                  q.steps[i] = "handler" => i = 2 /\ q.steps[1] = "next" /\ q.vres.err = ""

\* GET /users has passed the gate with a valid token and its handler has answered 200
C19_Witness ==
    \E r \in Reqs :
        /\ reqs[r].kind = "users"
        /\ reqs[r].steps = <<"next", "handler">>
        /\ reqs[r].resp.status = StatusOK

NulFree(s) == \A i \in 1..Len(Bytes(s)) : Bytes(s)[i] # 0
Hashable(s) == Len(Bytes(s)) <= BcryptMaxLen /\ NulFree(s)

\* C20: for all passwords P1 and P2, VerifyPassword(HashPassword(P1), P2)
\* returns nil if and only if P1 = P2, and CheckPasswordHash(P2, HashPassword(P1))
\* is true in exactly the same cases.
C20_VerifyIffEqual ==
    /\ hasher.verified => ((hasher.verr = "") <=> (hasher.p1 = hasher.p2))
    /\ hasher.checked => (hasher.ok <=> (hasher.p1 = hasher.p2))

\* what the hasher does guarantee: for passwords P1 and P2 of at most 72 bytes
\* without a NUL byte, HashPassword(P1) succeeds, VerifyPassword(HashPassword(P1), P2)
\* returns nil if and only if P1 = P2, and CheckPasswordHash agrees with it.
VerifyIffEqualHashable ==
    (Hashable(hasher.p1) /\ Hashable(hasher.p2)) =>
        /\ hasher.pc = "hashed" => hasher.err = "" /\ hasher.hash.alg = "bcrypt"
        /\ hasher.verified => ((hasher.verr = "") <=> (hasher.p1 = hasher.p2))
        /\ hasher.checked => (hasher.ok <=> (hasher.p1 = hasher.p2))

\* a password of exactly 72 bytes has been hashed, verified and checked against
\* itself, and both calls accepted it
HashableAccepted ==
    /\ hasher.pc = "hashed"
    /\ hasher.verified /\ hasher.checked
    /\ Len(Bytes(hasher.p1)) = BcryptMaxLen
    /\ NulFree(hasher.p1)
    /\ hasher.p2 = hasher.p1
    /\ hasher.verr = "" /\ hasher.ok

\* a password has been verified and checked against the hash of a different
\* one, and both calls refused it
HashableRefused ==
    /\ hasher.verified /\ hasher.checked
    /\ Hashable(hasher.p1) /\ Hashable(hasher.p2)
    /\ hasher.p1 # hasher.p2
    /\ hasher.verr # "" /\ ~hasher.ok

\* C21: with JWT_SECRET unset or empty no request is served, and no token is ever
\* signed or validated with the built-in default secret.
C21_SecretRequired ==
    /\ \A t \in wallet : t.sig.key # Load("").JWT.Secret
    /\ \A r \in Logins :
         (reqs[r].pc = "done" /\ reqs[r].resp.token # None)
         => reqs[r].resp.token.sig.key # Load("").JWT.Secret
    /\ env = "" => \A r \in Reqs : reqs[r].vres = None

\* a step of a Login
LoginStep == \E r \in Reqs : reqs'[r] # reqs[r] /\ "login" \in {reqs[r].kind, reqs'[r].kind}

\* the gate decides on a request that carries a token a Login issued
GateOnIssued(r, t) ==
    /\ reqs[r].pc = "gate" /\ reqs'[r].pc # "gate"
    /\ t \in wallet
    /\ reqs[r].header = <<"Bearer ", t>>

\* C22: no step of a Login changes the users table, and the gate accepts a token
\* that a Login issued exactly when it has not expired, whatever Register, Login,
\* UpdateProfile and Delete did to the users table in between.
C22_TokensStateless ==
    [][/\ LoginStep => users' = users
       /\ \A r \in Reqs : \A t \in wallet :
            GateOnIssued(r, t) =>
                /\ reqs'[r].pc = "handler" <=> now < t.claims.ExpiresAt
                /\ reqs'[r].pc = "handler" => reqs'[r].vres.claims.UserID = t.claims.UserID]_vars

\* the gate has let through the token of a user deleted after the token was issued
C22_Witness ==
    \E r \in Reqs : \E t \in wallet :
        /\ reqs[r].pc = "handler"
        /\ reqs[r].header = <<"Bearer ", t>>
        /\ reqs[r].steps = <<"next">>
        /\ now > t.claims.IssuedAt
        /\ \E i \in 1..Len(users) :
             users[i].ID = t.claims.UserID /\ users[i].DeletedAt # ""

\* the Update call of the UpdateProfile in slot r returns
SaveStep(r) == reqs[r].pc = "ucSave" /\ reqs'[r].pc = "done"

\* what UpdateProfile may do to the row: first and last name become the non-empty
\* fields of the request, everything else stays
Patched(row, q) ==
    [row EXCEPT !.FirstName = IF q.firstName # "" THEN q.firstName ELSE @,
                !.LastName = IF q.lastName # "" THEN q.lastName ELSE @]

\* C23: the Update of an UpdateProfile overwrites first name and last name of the
\* user only with the non-empty fields of the request: a field left empty keeps its
\* stored value, id, email, username and password do not change, and no other row
\* changes.
C23_UpdateFrame ==
    [][\A r \in DOMAIN reqs :
         SaveStep(r) =>
            /\ Len(users') = Len(users)
            /\ \A i \in 1..Len(users) :
                 users'[i] \in {users[i]} \cup
                     (IF users[i].ID = reqs[r].ucUserID.id /\ reqs'[r].failed = {}
                      THEN {Patched(users[i], reqs[r])} ELSE {})
            /\ reqs'[r].failed = {} =>
                 \A i \in 1..Len(users) :
                     users[i].ID = reqs[r].ucUserID.id /\ users[i].DeletedAt = ""
                        => users'[i] = Patched(users[i], reqs[r])]_vars

\* an UpdateProfile with an empty last name has stored its first name
PartialUpdateDone ==
    \E r \in DOMAIN reqs :
        /\ reqs[r].kind = "ucUpdateProfile" /\ reqs[r].pc = "done"
        /\ reqs[r].firstName # "" /\ reqs[r].lastName = ""
        /\ reqs[r].resp.status = StatusOK
        /\ \E i \in 1..Len(users) :
             /\ users[i].ID = reqs[r].ucUserID.id
             /\ users[i].FirstName = reqs[r].firstName

\* C24: after SIGINT or SIGTERM no new request is accepted once main has taken the
\* signal, Shutdown returns only when no request is in flight, and the process
\* eventually exits.
C24_GracefulShutdown ==
    /\ [](server.main \in {"stopped", "exited"} => \A r \in Reqs : ~Busy(r))
    /\ [][server.main # "waiting" => \A r \in Reqs : Busy(r)' => Busy(r)]_vars
    /\ (server.quit = 1) ~> (server.main = "exited")

\* the process has exited after a Shutdown that found a request in flight
C24_Witness ==
    /\ server.main = "exited"
    /\ server.inflight
    /\ server.listen = "closed"

\* the token of the request in slot r
OwnToken(q) == TrimPrefix(q.header, "Bearer ")[1]

\* the entries the gate wrote into the request's own context are those of the
\* request's own token
OwnContext ==
    \A r \in DOMAIN reqs :
        LET q == reqs[r] IN
        (q.kind \in {"profile", "updateProfile"} /\ q.steps # <<>> /\ q.steps[1] = "next")
        => /\ q.ctx[UserIDKey].v = OwnToken(q).claims.UserID
           /\ q.ctx[UserEmailKey].v = OwnToken(q).claims.Email
           /\ q.ctx[UserUsernameKey].v = OwnToken(q).claims.Username

\* C25: with requests of different valid tokens in flight together, the handler of
\* each request that passed the gate observes the user id of its own request's
\* token, and of no other.
C25_OwnPrincipal ==
    \A r \in DOMAIN reqs :
        LET q == reqs[r] IN
        (/\ q.kind \in {"profile", "updateProfile"}
         /\ q.steps = <<"next", "handler">>
         /\ OwnToken(q) \in wallet)
        => q.ucUserID = [id |-> OwnToken(q).claims.UserID]

\* both slots hold requests that passed the gate with the tokens of different users
TwoPrincipals ==
    /\ \A r \in DOMAIN reqs : reqs[r].steps # <<>> /\ reqs[r].steps[1] = "next"
    /\ \E r1, r2 \in DOMAIN reqs :
         reqs[r1].ctx[UserIDKey].v # reqs[r2].ctx[UserIDKey].v

\* C26: the secret is the one read at process start for the whole life of the
\* process: the gate accepts an unexpired token issued earlier in the process, and
\* every Login signs with the key the earlier tokens were signed with, whatever
\* happens to the environment in between.
C26_SecretFixed ==
    /\ \A r \in Reqs : \A t \in wallet :
         (/\ reqs[r].kind \in Protected
          /\ reqs[r].steps # <<>>
          /\ reqs[r].header = <<"Bearer ", t>>
          /\ now < t.claims.ExpiresAt)
         => reqs[r].steps[1] = "next"
    /\ \A r \in Logins : \A t \in wallet :
         (reqs[r].pc = "done" /\ reqs[r].resp.token # None)
         => reqs[r].resp.token.sig.key = t.sig.key

\* the Register in slot r has passed both existence checks
PassedChecks(q) ==
    q.kind = "register" /\ Len(q.steps) >= 3 /\ q.steps[3] = "create"

\* C27: under every interleaving of Register calls the users table never holds two
\* users with the same email or the same username, and of two calls with the same
\* email or username that both passed the existence checks at most one returns a
\* user; the other returns an error.
C27_UniqueUnderRace ==
    /\ \A i, j \in 1..Len(users) :
         i # j => users[i].Email # users[j].Email /\ users[i].Username # users[j].Username
    /\ \A r1, r2 \in DOMAIN reqs :
         (/\ r1 # r2
          /\ PassedChecks(reqs[r1]) /\ PassedChecks(reqs[r2])
          /\ reqs[r1].pc = "done" /\ reqs[r2].pc = "done"
          /\ \/ reqs[r1].email = reqs[r2].email
             \/ reqs[r1].username = reqs[r2].username)
         => \E r \in {r1, r2} :
               /\ reqs[r].resp.user = None
               /\ reqs[r].resp.status = StatusInternalServerError
               /\ reqs[r].resp.message = GetError("FailedToCreateUser", reqs[r].lang)

\* two Register calls with the same email have both passed the existence checks;
\* the Create of one succeeded and the Create of the other failed
C27_Witness ==
    \E r1, r2 \in DOMAIN reqs :
        /\ r1 # r2
        /\ reqs[r1].email = reqs[r2].email
        /\ PassedChecks(reqs[r1]) /\ PassedChecks(reqs[r2])
        /\ reqs[r1].pc = "done" /\ reqs[r2].pc = "done"
        /\ reqs[r1].resp.status = StatusCreated
        /\ reqs[r2].resp.status = StatusInternalServerError
        /\ Len(users) = 1

C29_PaginationSane ==
    /\ pager.pc \notin {"idle", "start"} =>
         /\ pager.pagination.PerPage >= 1
         /\ pager.pagination.Page >= 1
         /\ pager.pagination.Offset >= 0
    /\ pager.pc # "panicked"
    /\ pager.pc = "counted" =>
         /\ pager.totalPage * pager.pagination.PerPage >= pager.total
         /\ (pager.totalPage - 1) * pager.pagination.PerPage < pager.total

\* what PaginationBuilder does guarantee: Page >= 1, and with a per_page that is
\* missing, non-numeric or positive also PerPage >= 1, Offset >= 0 and a TotalPage
\* that is the ceiling of total / PerPage
PaginationSanePositive ==
    /\ pager.pc \notin {"idle", "start"} => pager.pagination.Page >= 1
    /\ (Atoi(pager.perPage).err \/ Atoi(pager.perPage).n >= 1) =>
         /\ pager.pc \notin {"idle", "start"} =>
              pager.pagination.PerPage >= 1 /\ pager.pagination.Offset >= 0
         /\ pager.pc # "panicked"
         /\ pager.pc = "counted" =>
              /\ pager.totalPage * pager.pagination.PerPage >= pager.total
              /\ (pager.totalPage - 1) * pager.pagination.PerPage < pager.total

\* a per_page of 0 has made TotalPage divide by zero
PagerPanicked == pager.pc = "panicked" /\ pager.perPage = "0"

\* a negative per_page has given a negative offset and a negative page count
PagerNegative ==
    pager.pc = "counted" /\ pager.pagination.Offset < 0 /\ pager.totalPage < 0

\* ---- C30 ----
\* the step on which the use case UpdateProduct writes the row and answers 200
ProductSaveStep ==
    /\ catalog.pc = "patched"
    /\ catalog'.pc = "done"
    /\ catalog'.code = StatusOK

\* the columns whose JSON key the body lacks are the same in both rows
OmittedKept(old, new, present, keys) ==
    /\ ("name" \in keys \ present => new.Name = old.Name)
    /\ ("description" \in keys \ present => new.Description = old.Description)
    /\ ("price" \in keys \ present => new.Price = old.Price)
    /\ ("stock" \in keys \ present => new.Stock = old.Stock)
    /\ ("category" \in keys \ present => new.Category = old.Category)
    /\ ("is_active" \in keys \ present => new.IsActive = old.IsActive)

\* C30: UpdateProduct changes only the fields supplied in the request: every
\* field the request omits, Price and Stock included, has its stored value
\* after the update.
C30_OmittedFieldsKept ==
    [][ProductSaveStep =>
         OmittedKept(catalog.products[1], catalog'.products[1],
                     catalog.body.present, ProductFields)]_vars

\* the same for the fields guarded by a test against "" or nil
OmittedTextKept ==
    [][ProductSaveStep =>
         OmittedKept(catalog.products[1], catalog'.products[1],
                     catalog.body.present, ProductFields \ {"price", "stock"})]_vars

\* an update that omitted the price has been written over a priced product
PriceOmittedSaved ==
    /\ catalog.pc = "done"
    /\ catalog.code = StatusOK
    /\ "price" \notin catalog.body.present
    /\ catalog.products[1].Price = 0
    /\ catalog.products[1].Name = "Bulb"

====
